---------------------------- MODULE Spec2Model ----------------------------
(*************************************************************************)
(* Risk scoring and scenario analysis of the outage forecasting system.  *)
(*                                                                       *)
(* Numbers are fixed point.  Every input quantity (rainfall, wind speed, *)
(* lightning strikes, load factor, voltage stability, feeder health, a   *)
(* swept parameter value) is held in hundredths: 0.95 is 95, 10 km/h is  *)
(* 1000.  Every score (risk_score, confidence bounds, risk_change) is    *)
(* held in thousandths: 18.5 is 18500, the cap 100 is 100000.  A weight  *)
(* w of the source is therefore the integer 10 * w.                      *)
(*************************************************************************)
EXTENDS Integers, Sequences, FiniteSets, TLC

VARIABLES
    is_trained,      \* EnsemblePredictor.is_trained
    lstm_model,      \* EnsemblePredictor.lstm_model.model is not None
    xgb_model,       \* EnsemblePredictor.xgboost_model.model is not None
    explainer,       \* EnsemblePredictor.xgboost_model.explainer is not None
    last,            \* the latest predict call: input, path taken, result
    prev,            \* the first fallback call made on an anchor payload
    parameter_values,\* run_sensitivity_analysis: the swept parameter values
    risk_scores,     \* calculate_sensitivity_metrics: the scores of the results
    metrics,         \* the sensitivity metrics computed from them
    cache,           \* simulation._simple_cache: cache key -> what-if response
    pending,         \* background set_cache tasks added and not yet run
    response,        \* the latest answer of a simulation route, and its work
    ensemble_model,  \* predictions.ensemble_model: the object it refers to
    model_loaded,    \* predictions.model_loaded
    loads,           \* the loads from disk get_model_instance has started
    calls,           \* the calls of get_model_instance that have returned
    prediction_cache,\* predictions._simple_cache: cache key -> prediction response
    inflight,        \* the requests being handled, each with the position of its handler
    initial,         \* the caches and the fitted classifier the requests started from
    now,             \* the clock, in seconds
    stored_at,       \* cache key -> the time set_cache last stored it
    self_requests,   \* RateLimitingMiddleware.requests: client -> times recorded
    dispatched       \* the calls of dispatch so far: client, time, status

predVars == <<is_trained, lstm_model, xgb_model, explainer, last, prev>>
metricVars == <<parameter_values, risk_scores, metrics>>
routeVars == <<cache, pending, response>>
instanceVars == <<ensemble_model, model_loaded, loads, calls>>
serverVars == <<prediction_cache, inflight, initial, now, stored_at, self_requests, dispatched>>

vars == <<predVars, metricVars, routeVars, instanceVars, serverVars>>

-----------------------------------------------------------------------------
(* Bounds of the explored inputs *)

MaxRain == 1         \* rainfall inputs are -30, 0, ..., 30 * MaxRain mm
MaxSteps == 3        \* sweeps of 2..MaxSteps samples
MaxEntries == 3      \* cache entries written or waiting to be written
MaxOverrides == 3    \* overrides in a map whose order of items is explored
MaxCalls == 3        \* calls of get_model_instance in a process
MaxBatch == 2        \* requests of a batch within the limit
MaxEmbedding == 2    \* entries of a weather embedding
MaxFeatures == 6     \* features of an attribution map
MaxInflight == 2     \* requests handled at the same time
MaxMinutes == 11     \* minutes the clock runs
MaxSeconds == 120    \* seconds the clock of the rate limiter runs
MaxDispatches == 5   \* requests that reach the rate limiter
calls_per_minute == 2 \* RateLimitingMiddleware(app, calls_per_minute), 60 by default

-----------------------------------------------------------------------------
(* Values and dictionaries *)

\* Python's None (a JSON null) held in a numeric field
None == -999999

\* dict.get(k, default)
Get(d, k, default) == IF k \in DOMAIN d THEN d[k] ELSE default

Restrict(f, D) == [k \in D |-> f[k]]

Max2(a, b) == IF a >= b THEN a ELSE b
Min2(a, b) == IF a <= b THEN a ELSE b

WeatherKeys == {"rainfall", "wind_speed", "lightning_strikes", "storm_alert"}
GridKeys == {"voltage_stability", "load_factor", "maintenance_status", "feeder_health"}
NumericWeatherKeys == {"rainfall", "wind_speed", "lightning_strikes"}
NumericGridKeys == {"voltage_stability", "load_factor", "feeder_health"}

RainfallVals == {3000 * i : i \in -1..MaxRain}

WeatherDicts ==
    [rainfall : RainfallVals, wind_speed : {0, 6000},
     lightning_strikes : {0, 1000}, storm_alert : BOOLEAN]

\* the base scenario of the end-to-end example
BaseWeather == [rainfall |-> 0, wind_speed |-> 1000, lightning_strikes |-> 0,
                storm_alert |-> FALSE]
BaseGrid == [voltage_stability |-> 95, load_factor |-> 50,
             maintenance_status |-> FALSE, feeder_health |-> 90]
BaseInput == [weather |-> BaseWeather, grid |-> BaseGrid]

StressedGrid == [voltage_stability |-> 50, load_factor |-> 100,
                 maintenance_status |-> TRUE, feeder_health |-> 50]

\* payloads with missing keys, an empty dictionary or a None field
OddPayloads ==
    { [grid |-> StressedGrid],
      [weather |-> [rainfall |-> 3000, wind_speed |-> 0,
                    lightning_strikes |-> 0, storm_alert |-> TRUE]],
      [weather |-> <<>>, grid |-> <<>>],
      [weather |-> [BaseWeather EXCEPT !.rainfall = None], grid |-> BaseGrid],
      [weather |-> Restrict(BaseWeather, {"wind_speed", "storm_alert"}),
       grid |-> Restrict(StressedGrid, {"load_factor", "feeder_health"})] }

\* the payloads handed to EnsemblePredictor.predict
Payloads ==
    { [weather |-> w, grid |-> g] : w \in WeatherDicts, g \in {<<>>, StressedGrid} }
    \cup {BaseInput} \cup OddPayloads

\* In model mode the assessment depends on the payload only through the
\* presence of its keys, its None fields and the contributing-factor rules:
\* calls on a trained predictor draw from this smaller set.
ModelPayloads ==
    OddPayloads \cup
    { BaseInput,
      [weather |-> [rainfall |-> 3000, wind_speed |-> 6000,
                    lightning_strikes |-> 1000, storm_alert |-> TRUE],
       grid |-> StressedGrid] }

\* the payloads whose first fallback call is remembered in prev
AnchorPayloads ==
    { BaseInput,
      [weather |-> <<>>, grid |-> <<>>],
      [weather |-> [rainfall |-> 3000, wind_speed |-> 6000,
                    lightning_strikes |-> 0, storm_alert |-> TRUE],
       grid |-> StressedGrid] }

\* what the fitted regressor returns for a feature vector, and the standard
\* deviation of its ten perturbed predictions: both are outputs of the fitted
\* model, which the code neither bounds nor clamps
RawScores == {-5000, 50000, 105000}
Uncertainties == {0, 5000}

-----------------------------------------------------------------------------
(* EnsemblePredictor *)

\* a None operand makes the arithmetic or the comparison raise TypeError
HasNone(d, keys) == \E k \in keys \cap DOMAIN d : d[k] = None

_identify_contributing_factors(input_data) ==
    LET weather == Get(input_data, "weather", <<>>)
        grid == Get(input_data, "grid", <<>>)
        rules == <<
            <<Get(weather, "rainfall", 0) > 2500, "Heavy rainfall expected">>,
            <<Get(weather, "wind_speed", 0) > 5000, "Strong winds forecasted">>,
            <<Get(weather, "lightning_strikes", 0) > 500, "High lightning activity">>,
            <<Get(weather, "storm_alert", FALSE), "Active storm warning">>,
            <<Get(grid, "load_factor", 0) > 80, "High electrical demand">>,
            <<Get(grid, "voltage_stability", 100) < 70, "Grid voltage instability">>,
            <<Get(grid, "maintenance_status", FALSE), "Equipment under maintenance">>,
            <<Get(grid, "feeder_health", 100) < 60, "Poor feeder condition">> >>
        hit(r) == r[1]
        fired == SelectSeq(rules, hit)
        factors == [i \in 1..Len(fired) |-> fired[i][2]]
    IN  SubSeq(factors, 1, Min2(5, Len(factors)))

W_rainfall == 8
W_wind_speed == 3
W_lightning_strikes == 20
W_storm_alert == 20000
W_voltage_stability == 300
W_load_factor == 250
W_maintenance_status == 15000
W_feeder_health == 200
ScoreCap == 100000
MockHalfWidth == 10000

\* MockSum with a missing voltage_stability read as 0 instead of 1
MockSum_ZeroDefault(weather, grid) ==
      Get(weather, "rainfall", 0) * W_rainfall
    + Get(weather, "wind_speed", 0) * W_wind_speed
    + Get(weather, "lightning_strikes", 0) * W_lightning_strikes
    + (IF Get(weather, "storm_alert", FALSE) THEN W_storm_alert ELSE 0)
    + (100 - Get(grid, "voltage_stability", 0)) * W_voltage_stability
    + Get(grid, "load_factor", 0) * W_load_factor
    + (IF Get(grid, "maintenance_status", FALSE) THEN W_maintenance_status ELSE 0)
    + (100 - Get(grid, "feeder_health", 100)) * W_feeder_health

\* MockSum with the voltage term 30 * voltage_stability, not 30 * (1 - it)
MockSum_VoltageInverted(weather, grid) ==
      Get(weather, "rainfall", 0) * W_rainfall
    + Get(weather, "wind_speed", 0) * W_wind_speed
    + Get(weather, "lightning_strikes", 0) * W_lightning_strikes
    + (IF Get(weather, "storm_alert", FALSE) THEN W_storm_alert ELSE 0)
    + Get(grid, "voltage_stability", 100) * W_voltage_stability
    + Get(grid, "load_factor", 0) * W_load_factor
    + (IF Get(grid, "maintenance_status", FALSE) THEN W_maintenance_status ELSE 0)
    + (100 - Get(grid, "feeder_health", 100)) * W_feeder_health

\* MockSum with the wind term subtracted
MockSum_WindSubtracted(weather, grid) ==
      Get(weather, "rainfall", 0) * W_rainfall
    - Get(weather, "wind_speed", 0) * W_wind_speed
    + Get(weather, "lightning_strikes", 0) * W_lightning_strikes
    + (IF Get(weather, "storm_alert", FALSE) THEN W_storm_alert ELSE 0)
    + (100 - Get(grid, "voltage_stability", 100)) * W_voltage_stability
    + Get(grid, "load_factor", 0) * W_load_factor
    + (IF Get(grid, "maintenance_status", FALSE) THEN W_maintenance_status ELSE 0)
    + (100 - Get(grid, "feeder_health", 100)) * W_feeder_health

\* the weighted sum of _mock_prediction before it is capped
MockSum(weather, grid) ==
      Get(weather, "rainfall", 0) * W_rainfall
    + Get(weather, "wind_speed", 0) * W_wind_speed
    + Get(weather, "lightning_strikes", 0) * W_lightning_strikes
    + (IF Get(weather, "storm_alert", FALSE) THEN W_storm_alert ELSE 0)
    + (100 - Get(grid, "voltage_stability", 100)) * W_voltage_stability
    + Get(grid, "load_factor", 0) * W_load_factor
    + (IF Get(grid, "maintenance_status", FALSE) THEN W_maintenance_status ELSE 0)
    + (100 - Get(grid, "feeder_health", 100)) * W_feeder_health

NoExplanation == [method |-> "none", weather_contribution |-> 0, grid_contribution |-> 0]

\* no predict call yet
NoCall == [path |-> "none"]

\* no simulation route called yet
NoResponse == [route |-> "none"]

\* _mock_prediction with a confidence band that widens after the first call
_mock_prediction_Jitter(input_data, include_explanation) ==
    LET weather == Get(input_data, "weather", <<>>)
        grid == Get(input_data, "grid", <<>>)
        risk_score == Min2(ScoreCap, Max2(0, MockSum(weather, grid)))
        jitter == IF last = NoCall THEN 0 ELSE 1000
    IN  [ risk_score |-> risk_score,
          confidence_interval |->
              [lower |-> Max2(0, risk_score - MockHalfWidth - jitter),
               upper |-> Min2(ScoreCap, risk_score + MockHalfWidth + jitter)],
          explanation |-> NoExplanation,
          contributing_factors |-> _identify_contributing_factors(input_data) ]

_mock_prediction(input_data, include_explanation) ==
    LET weather == Get(input_data, "weather", <<>>)
        grid == Get(input_data, "grid", <<>>)
        risk_score == Min2(ScoreCap, Max2(0, MockSum(weather, grid)))
    IN  [ risk_score |-> risk_score,
          confidence_interval |->
              [lower |-> Max2(0, risk_score - MockHalfWidth),
               upper |-> Min2(ScoreCap, risk_score + MockHalfWidth)],
          explanation |->
              IF include_explanation
              THEN [method |-> "mock_prediction",
                    weather_contribution |->
                        Get(weather, "rainfall", 0) * W_rainfall
                        + Get(weather, "wind_speed", 0) * W_wind_speed,
                    grid_contribution |->
                        (100 - Get(grid, "voltage_stability", 100)) * W_voltage_stability]
              ELSE NoExplanation,
          contributing_factors |-> _identify_contributing_factors(input_data) ]

\* the "safe default" of predict's except branch
FailureDefault ==
    [ risk_score |-> 0,
      confidence_interval |-> [lower |-> 0, upper |-> 0],
      explanation |-> NoExplanation,
      contributing_factors |-> <<"Prediction failed">> ]

\* 1.96 * uncertainty
Z196(uncertainty) == (196 * uncertainty) \div 100

predict_with_explanation(raw, uncertainty, has_explainer) ==
    [ risk_score |-> raw,
      confidence_interval |->
          [lower |-> Max2(0, raw - Z196(uncertainty)),
           upper |-> Min2(ScoreCap, raw + Z196(uncertainty))],
      explanation |->
          [method |-> IF has_explainer THEN "shap" ELSE "feature_importance",
           weather_contribution |-> 0, grid_contribution |-> 0] ]

\* whether the body of predict raises for this payload and predictor state;
\* infer_raises is an exception of the fitted sub-models themselves
PredictRaises(self, input_data, infer_raises) ==
    LET weather == Get(input_data, "weather", <<>>)
        grid == Get(input_data, "grid", <<>>)
        none == HasNone(weather, NumericWeatherKeys) \/ HasNone(grid, NumericGridKeys)
    IN  IF ~self.is_trained
        THEN none
        ELSE \/ "weather" \notin DOMAIN input_data
             \/ ~self.lstm_model
             \/ "grid" \notin DOMAIN input_data
             \/ ~self.xgb_model
             \/ none
             \/ infer_raises

\* EnsemblePredictor.predict: the path taken and the assessment returned
predict(self, input_data, include_explanation, raw, uncertainty, infer_raises) ==
    IF PredictRaises(self, input_data, infer_raises)
    THEN [path |-> "failure", result |-> FailureDefault]
    ELSE IF ~self.is_trained
    THEN [path |-> "fallback",
          result |-> _mock_prediction(input_data, include_explanation)]
    ELSE IF include_explanation
    THEN [path |-> "model_explained",
          result |->
              [predict_with_explanation(raw, uncertainty, self.explainer)
                  EXCEPT !.risk_score = raw]
              @@ [contributing_factors |-> _identify_contributing_factors(input_data)]]
    ELSE [path |-> "model_plain",
          result |->
              [ risk_score |-> raw,
                confidence_interval |->
                    [lower |-> Max2(0, raw - MockHalfWidth),
                     upper |-> Min2(ScoreCap, raw + MockHalfWidth)],
                explanation |-> NoExplanation,
                contributing_factors |-> _identify_contributing_factors(input_data) ]]

Predictor == [is_trained |-> is_trained, lstm_model |-> lstm_model,
              xgb_model |-> xgb_model, explainer |-> explainer]

-----------------------------------------------------------------------------
(* The model instance of the prediction routes *)

\* ensemble_model = None, before the first get_model_instance
NoInstance ==
    [kind |-> "None", id |-> 0, is_trained |-> FALSE, lstm_model |-> FALSE,
     xgb_model |-> FALSE, explainer |-> FALSE]

\* the module globals of predictions.py when it is imported
InitInstance ==
    /\ ensemble_model = NoInstance
    /\ model_loaded = FALSE
    /\ loads = 0
    /\ calls = 0

\* no requests started yet
NoInitial == [cache |-> <<>>, prediction_cache |-> <<>>, classifier |-> <<>>]

\* the caches and the middleware of a process that has served nothing yet
InitServer ==
    /\ prediction_cache = <<>>
    /\ inflight = <<>>
    /\ initial = NoInitial
    /\ now = 0
    /\ stored_at = <<>>
    /\ self_requests = <<>>
    /\ dispatched = <<>>

-----------------------------------------------------------------------------
(* Exact rational arithmetic for the ratios of ScenarioAnalyzer *)

Abs(x) == IF x < 0 THEN -x ELSE x

RECURSIVE GCD(_, _)
GCD(a, b) == IF b = 0 THEN a ELSE GCD(b, a % b)

\* the fraction n / d in lowest terms with a positive denominator (d # 0)
Rat(n, d) ==
    LET g == GCD(Abs(n), Abs(d))
        sgn == IF d < 0 THEN -1 ELSE 1
    IN  <<(sgn * n) \div g, (sgn * d) \div g>>

RatAdd(p, q) == Rat(p[1] * q[2] + q[1] * p[2], p[2] * q[2])

RECURSIVE RatSum(_)
RatSum(seq) == IF seq = <<>> THEN Rat(0, 1) ELSE RatAdd(Head(seq), RatSum(Tail(seq)))

\* np.mean of a non-empty list
Mean(seq) == LET t == RatSum(seq) IN Rat(t[1], t[2] * Len(seq))

SeqMax(seq) == CHOOSE x \in {seq[i] : i \in DOMAIN seq} : \A i \in DOMAIN seq : seq[i] <= x
SeqMin(seq) == CHOOSE x \in {seq[i] : i \in DOMAIN seq} : \A i \in DOMAIN seq : x <= seq[i]

RECURSIVE SeqSum(_)
SeqSum(seq) == IF seq = <<>> THEN 0 ELSE Head(seq) + SeqSum(Tail(seq))

-----------------------------------------------------------------------------
(* ScenarioAnalyzer: sensitivity metrics *)

\* run_sensitivity_analysis, lines 290-291: steps evenly spaced values; the
\* sweeps explored are those whose step size is a whole number of hundredths
ParameterValues(min_value, max_value, steps) ==
    LET step_size == (max_value - min_value) \div (steps - 1)
    IN  [i \in 1..steps |-> min_value + (i - 1) * step_size]

Thresholds == <<[name |-> "low_to_medium", value |-> 30000],
                [name |-> "medium_to_high", value |-> 60000],
                [name |-> "high_to_critical", value |-> 80000]>>

\* the crossings of one threshold, in sample order (index i is Python's i + 1)
RECURSIVE Crossings(_, _, _, _)
Crossings(values, scores, threshold_value, i) ==
    IF i > Len(scores) THEN <<>>
    ELSE LET risk == scores[i]
             prev_risk == scores[i - 1]
             crossed == \/ (prev_risk < threshold_value /\ threshold_value <= risk)
                        \/ (prev_risk > threshold_value /\ threshold_value >= risk)
             entry == [parameter_value |-> values[i],
                       risk_score |-> risk,
                       crossing_direction |-> IF risk > prev_risk THEN "up" ELSE "down"]
         IN  (IF crossed THEN <<entry>> ELSE <<>>)
             \o Crossings(values, scores, threshold_value, i + 1)

\* Crossings recording the value of the pair's first sample
RECURSIVE Crossings_PrevValue(_, _, _, _)
Crossings_PrevValue(values, scores, threshold_value, i) ==
    IF i > Len(scores) THEN <<>>
    ELSE LET risk == scores[i]
             prev_risk == scores[i - 1]
             crossed == \/ (prev_risk < threshold_value /\ threshold_value <= risk)
                        \/ (prev_risk > threshold_value /\ threshold_value >= risk)
             entry == [parameter_value |-> values[i - 1],
                       risk_score |-> risk,
                       crossing_direction |-> IF risk > prev_risk THEN "up" ELSE "down"]
         IN  (IF crossed THEN <<entry>> ELSE <<>>)
             \o Crossings_PrevValue(values, scores, threshold_value, i + 1)

ThresholdCrossings_PrevValue(values, scores, threshold_value) ==
    Crossings_PrevValue(values, scores, threshold_value, 2)

\* one threshold of _find_risk_thresholds
ThresholdCrossings(values, scores, threshold_value) ==
    Crossings(values, scores, threshold_value, 2)

_find_risk_thresholds(values, scores) ==
    [low_to_medium |-> ThresholdCrossings(values, scores, Thresholds[1].value),
     medium_to_high |-> ThresholdCrossings(values, scores, Thresholds[2].value),
     high_to_critical |-> ThresholdCrossings(values, scores, Thresholds[3].value)]

\* the point elasticities of the qualifying pairs, in sample order
RECURSIVE Elasticities(_, _, _)
Elasticities(values, scores, i) ==
    IF i > Len(values) THEN <<>>
    ELSE LET qualifies == /\ values[i - 1] # 0 /\ scores[i - 1] # 0
                          /\ values[i] - values[i - 1] # 0
             \* risk_pct_change / param_pct_change
             elasticity == Rat((scores[i] - scores[i - 1]) * values[i - 1],
                               scores[i - 1] * (values[i] - values[i - 1]))
         IN  (IF qualifies THEN <<elasticity>> ELSE <<>>)
             \o Elasticities(values, scores, i + 1)

\* Elasticities taking the pair's second sample as the base of the relative
\* changes, and testing it for zero, instead of the first
RECURSIVE Elasticities_CurrentBase(_, _, _)
Elasticities_CurrentBase(values, scores, i) ==
    IF i > Len(values) THEN <<>>
    ELSE LET qualifies == /\ values[i] # 0 /\ scores[i] # 0
                          /\ values[i] - values[i - 1] # 0
             elasticity == Rat((scores[i] - scores[i - 1]) * values[i],
                               scores[i] * (values[i] - values[i - 1]))
         IN  (IF qualifies THEN <<elasticity>> ELSE <<>>)
             \o Elasticities_CurrentBase(values, scores, i + 1)

PointElasticities_CurrentBase(values, scores) ==
    Elasticities_CurrentBase(values, scores, 2)

\* the loop of _calculate_elasticity
PointElasticities(values, scores) == Elasticities(values, scores, 2)

_calculate_elasticity(values, scores) ==
    IF Len(values) < 2 THEN Rat(0, 1)
    ELSE LET risk_changes == PointElasticities(values, scores)
         IN  IF risk_changes # <<>> THEN Mean(risk_changes) ELSE Rat(0, 1)

\* a gradient is (score difference) / (value difference); a score unit is a
\* thousandth and a value unit a hundredth, hence the factor 10
_calculate_risk_gradient(values, scores) ==
    IF Len(values) < 2 THEN <<>>
    ELSE [k \in 1..(Len(values) - 1) |->
            LET param_diff == values[k + 1] - values[k]
                risk_diff == scores[k + 1] - scores[k]
            IN  IF param_diff # 0 THEN Rat(risk_diff, 10 * param_diff) ELSE Rat(0, 1)]

\* np.argmin: the first index of the minimum
ArgMin(seq) == CHOOSE i \in DOMAIN seq :
                  /\ \A j \in DOMAIN seq : seq[i] <= seq[j]
                  /\ \A j \in 1..(i - 1) : seq[j] > seq[i]

\* the range taken within 10 points of the minimum instead of within 10%
_find_optimal_parameter_range_AbsoluteTolerance(values, scores) ==
    LET min_risk_idx == ArgMin(scores)
        within == {i \in DOMAIN scores : scores[i] <= scores[min_risk_idx] + 10000}
        optimal_range == {values[i] : i \in within}
    IN  [optimal_value |-> values[min_risk_idx],
         minimum_risk |-> scores[min_risk_idx],
         optimal_range |->
             [min |-> CHOOSE x \in optimal_range : \A y \in optimal_range : x <= y,
              max |-> CHOOSE x \in optimal_range : \A y \in optimal_range : y <= x],
         risk_reduction_potential |-> SeqMax(scores) - scores[min_risk_idx]]

_find_optimal_parameter_range(values, scores) ==
    LET min_risk_idx == ArgMin(scores)
        optimal_value == values[min_risk_idx]
        min_risk == scores[min_risk_idx]
        \* risk <= min_risk + min_risk * 0.1
        within == {i \in DOMAIN scores : 10 * scores[i] <= 11 * min_risk}
        optimal_range == {values[i] : i \in within}
        lowest == CHOOSE x \in optimal_range : \A y \in optimal_range : x <= y
        highest == CHOOSE x \in optimal_range : \A y \in optimal_range : y <= x
    IN  [optimal_value |-> optimal_value,
         minimum_risk |-> min_risk,
         optimal_range |->
             [min |-> IF optimal_range # {} THEN lowest ELSE optimal_value,
              max |-> IF optimal_range # {} THEN highest ELSE optimal_value],
         risk_reduction_potential |-> SeqMax(scores) - min_risk]

RECURSIVE SeqGCD(_)
SeqGCD(seq) == IF seq = <<>> THEN 0 ELSE GCD(Abs(Head(seq)), SeqGCD(Tail(seq)))

\* np.corrcoef(values, scores)[0, 1], held as its sign and its square; nan
\* when one of the two lists is constant.  The coefficient does not change
\* when a list is divided by a positive constant: each list is first divided
\* by the greatest common divisor of its entries, which keeps the products small.
Correlation(values, scores) ==
    LET n == Len(values)
        gx == IF SeqGCD(values) = 0 THEN 1 ELSE SeqGCD(values)
        gy == IF SeqGCD(scores) = 0 THEN 1 ELSE SeqGCD(scores)
        x == [i \in 1..n |-> values[i] \div gx]
        y == [i \in 1..n |-> scores[i] \div gy]
        xy == [i \in 1..n |-> x[i] * y[i]]
        xx == [i \in 1..n |-> x[i] * x[i]]
        yy == [i \in 1..n |-> y[i] * y[i]]
        cov == n * SeqSum(xy) - SeqSum(x) * SeqSum(y)
        vx == n * SeqSum(xx) - SeqSum(x) * SeqSum(x)
        vy == n * SeqSum(yy) - SeqSum(y) * SeqSum(y)
        g == IF cov = 0 THEN 1 ELSE GCD(Abs(cov), vx)
        h == IF cov = 0 THEN 1 ELSE GCD(Abs(cov), vy)
    IN  IF vx = 0 \/ vy = 0
        THEN [nan |-> TRUE, sign |-> 0, squared |-> Rat(0, 1)]
        ELSE [nan |-> FALSE,
              sign |-> IF cov > 0 THEN 1 ELSE IF cov < 0 THEN -1 ELSE 0,
              squared |-> Rat((cov \div g) * (cov \div h), (vx \div g) * (vy \div h))]

NoMetrics == [error |-> "not computed"]
MetricsError == [error |-> "raised"]

\* calculate_sensitivity_metrics: max() of an empty list and np.corrcoef of
\* lists of different lengths raise, and the except branch returns an error
calculate_sensitivity_metrics(values, scores) ==
    IF values = <<>> \/ scores = <<>> \/ Len(values) # Len(scores)
    THEN MetricsError
    ELSE LET param_range == SeqMax(values) - SeqMin(values)
             risk_range == SeqMax(scores) - SeqMin(scores)
         IN  [error |-> "none",
              sensitivity_coefficient |->
                  IF param_range > 0 THEN Rat(risk_range, 10 * param_range)
                  ELSE Rat(0, 1),
              correlation |->
                  IF Len(values) > 1 THEN Correlation(values, scores)
                  ELSE [nan |-> FALSE, sign |-> 0, squared |-> Rat(0, 1)],
              parameter_elasticity |-> _calculate_elasticity(values, scores),
              threshold_analysis |-> _find_risk_thresholds(values, scores),
              risk_gradient |-> _calculate_risk_gradient(values, scores),
              optimal_range |-> _find_optimal_parameter_range(values, scores)]

-----------------------------------------------------------------------------
(* Operations on the predictor *)

Init ==
    /\ is_trained = FALSE
    /\ lstm_model = FALSE
    /\ xgb_model = FALSE
    /\ explainer = FALSE
    /\ last = NoCall
    /\ prev = NoCall
    /\ parameter_values = <<>>
    /\ risk_scores = <<>>
    /\ metrics = NoMetrics
    /\ cache = <<>>
    /\ pending = {}
    /\ response = NoResponse
    /\ InitInstance
    /\ InitServer

\* EnsemblePredictor.train; outcome is where, if anywhere, training raises
Train(outcome) ==
    /\ \/ /\ outcome = "ok"
          /\ lstm_model' = TRUE /\ xgb_model' = TRUE /\ explainer' = TRUE
          /\ is_trained' = TRUE
       \/ /\ outcome = "lstm_prepare_raises"
          /\ UNCHANGED <<lstm_model, xgb_model, explainer, is_trained>>
       \/ /\ outcome = "lstm_fit_raises"
          /\ lstm_model' = TRUE
          /\ UNCHANGED <<xgb_model, explainer, is_trained>>
       \/ /\ outcome = "xgb_prepare_raises"
          /\ lstm_model' = TRUE
          /\ UNCHANGED <<xgb_model, explainer, is_trained>>
       \/ /\ outcome = "xgb_fit_raises"
          /\ lstm_model' = TRUE /\ xgb_model' = TRUE
          /\ UNCHANGED <<explainer, is_trained>>
    /\ UNCHANGED <<last, prev>>

\* EnsemblePredictor.load_model on a directory; has_lstm and has_xgb say which
\* model files it holds, fail_at where, if anywhere, loading raises
LoadModel(has_lstm, has_xgb, fail_at) ==
    /\ fail_at \in {"lstm_model", "lstm_scaler"} => has_lstm
    /\ fail_at \in {"xgb_model", "xgb_scaler"} => has_xgb
    /\ lstm_model' = IF has_lstm /\ fail_at # "lstm_model" THEN TRUE ELSE lstm_model
    /\ xgb_model' = IF has_xgb /\ fail_at \notin {"lstm_model", "lstm_scaler"}
                    THEN TRUE ELSE xgb_model
    /\ is_trained' = IF fail_at = "none" THEN TRUE ELSE is_trained
    /\ UNCHANGED <<explainer, last, prev>>

\* one call of EnsemblePredictor.predict; anchor says whether the call, if it
\* is the first fallback call on an anchor payload, is remembered in prev
Predict(input_data, include_explanation, raw, uncertainty, infer_raises, anchor) ==
    LET out == predict(Predictor, input_data, include_explanation,
                       raw, uncertainty, infer_raises)
    IN  /\ last' = [input |-> input_data,
                    include_explanation |-> include_explanation,
                    trained |-> is_trained,
                    path |-> out.path,
                    result |-> out.result]
        /\ prev' = IF anchor /\ prev = NoCall /\ ~is_trained
                      /\ input_data \in AnchorPayloads
                   THEN [input |-> input_data,
                         include_explanation |-> include_explanation,
                         path |-> out.path,
                         result |-> [out.result EXCEPT !.explanation = NoExplanation]]
                   ELSE prev
        /\ UNCHANGED <<is_trained, lstm_model, xgb_model, explainer>>

TrainOutcomes == {"ok", "lstm_prepare_raises", "lstm_fit_raises",
                  "xgb_prepare_raises", "xgb_fit_raises"}
LoadFailures == {"none", "lstm_model", "lstm_scaler", "xgb_model", "xgb_scaler"}

PredictFallback ==
    /\ ~is_trained
    /\ \E input_data \in Payloads, include_explanation \in BOOLEAN :
           \/ Predict(input_data, include_explanation, 0, 0, FALSE, FALSE)
           \/ /\ prev = NoCall /\ input_data \in AnchorPayloads
              /\ Predict(input_data, include_explanation, 0, 0, FALSE, TRUE)

PredictModel ==
    /\ is_trained
    /\ \E input_data \in ModelPayloads, raw \in RawScores :
           \/ \E uncertainty \in Uncertainties :
                  Predict(input_data, TRUE, raw, uncertainty, FALSE, FALSE)
           \/ Predict(input_data, FALSE, raw, 0, FALSE, FALSE)
           \/ \E include_explanation \in BOOLEAN :
                  /\ raw = 50000
                  /\ Predict(input_data, include_explanation, raw, 0, TRUE, FALSE)

TrainAny == \E outcome \in TrainOutcomes : Train(outcome)

LoadAny ==
    \E has_lstm \in BOOLEAN, has_xgb \in BOOLEAN, fail_at \in LoadFailures :
        LoadModel(has_lstm, has_xgb, fail_at)

Next ==
    \/ TrainAny /\ UNCHANGED <<metricVars, routeVars, instanceVars, serverVars>>
    \/ LoadAny /\ UNCHANGED <<metricVars, routeVars, instanceVars, serverVars>>
    \/ PredictFallback /\ UNCHANGED <<metricVars, routeVars, instanceVars, serverVars>>
    \/ PredictModel /\ UNCHANGED <<metricVars, routeVars, instanceVars, serverVars>>

Spec == Init /\ [][Next]_vars

-----------------------------------------------------------------------------
(* The sensitivity metrics applied to sampled sweeps *)

\* scores a result can carry, among them the risk-level boundaries 30, 60, 80
ScoreVals == {0, 28000, 30000, 35000, 60000, 65000, 80000, 90000}

\* (min_value, max_value) of the explored sweeps, in hundredths
SweepRanges == {<<0, 1200>>, <<600, 1200>>, <<-600, 600>>}

\* all sequences over S of length n
SeqsOfLen(S, n) == [1..n -> S]

\* score = 2 * param, the synthetic linear scorer
LinearScores(values) == [i \in DOMAIN values |-> 20 * values[i]]

\* the documented examples: the linear scorer over 0..10 in 5 steps, and the
\* scores 20, 28, 35, 55, 65 at the values 0..4
LinearExampleValues == ParameterValues(0, 1000, 5)
CrossingExampleValues == ParameterValues(0, 400, 5)
CrossingExampleScores == <<20000, 28000, 35000, 55000, 65000>>

InitMetrics ==
    /\ is_trained = FALSE /\ lstm_model = FALSE /\ xgb_model = FALSE
    /\ explainer = FALSE /\ last = NoCall /\ prev = NoCall
    /\ cache = <<>> /\ pending = {} /\ response = NoResponse
    /\ metrics = NoMetrics
    /\ InitInstance
    /\ InitServer
    /\ \/ \E r \in SweepRanges, steps \in 2..MaxSteps :
             /\ (r[2] - r[1]) % (steps - 1) = 0
             /\ parameter_values = ParameterValues(r[1], r[2], steps)
             /\ \E n \in {steps - 1, steps} : risk_scores \in SeqsOfLen(ScoreVals, n)
       \/ /\ parameter_values = LinearExampleValues
          /\ risk_scores = LinearScores(parameter_values)
       \/ /\ parameter_values = CrossingExampleValues
          /\ risk_scores = CrossingExampleScores

\* ScenarioAnalyzer.calculate_sensitivity_metrics on the sampled sweep
CalculateSensitivityMetrics ==
    /\ metrics = NoMetrics
    /\ metrics' = calculate_sensitivity_metrics(parameter_values, risk_scores)
    /\ UNCHANGED <<parameter_values, risk_scores>>
    /\ UNCHANGED <<predVars, routeVars, instanceVars, serverVars>>

NextMetrics == CalculateSensitivityMetrics

SpecMetrics == InitMetrics /\ [][NextMetrics]_vars

-----------------------------------------------------------------------------
(* The simulation routes: what-if and sensitivity *)

\* PredictionRequest.dict() of the base scenario of the requests
BaseScenario ==
    [weather_data |-> BaseWeather, grid_data |-> BaseGrid, prediction_horizon |-> 24]

\* the keys of modified_parameters the requests use
ParamPaths ==
    {"weather_data.rainfall", "weather.rainfall", "rainfall",
     "weather_data.rainfall.unit", "grid_data.maintenance_status",
     "grid_data.load_factor"}

\* param_path.split('.')
Split(param_path) ==
    CASE param_path = "weather_data.rainfall" -> <<"weather_data", "rainfall">>
      [] param_path = "weather.rainfall" -> <<"weather", "rainfall">>
      [] param_path = "rainfall" -> <<"rainfall">>
      [] param_path = "weather_data.rainfall.unit" -> <<"weather_data", "rainfall", "unit">>
      [] param_path = "grid_data.maintenance_status" -> <<"grid_data", "maintenance_status">>
      [] param_path = "grid_data.load_factor" -> <<"grid_data", "load_factor">>

\* word in param.lower(), for paths made of the segments above
Mentions(param, word) == \E i \in DOMAIN Split(param) : Split(param)[i] = word

\* d[k] = v on a dict
SetItem(d, k, v) == [x \in DOMAIN d \cup {k} |-> IF x = k THEN v ELSE d[x]]

\* the keys of the scenario dict that hold a dict
NestedDicts == {"weather_data", "grid_data"}

\* the override written at the top level of the scenario dict, without
\* navigating to the nested dict
ApplyModification_TopLevel(scenario, keys, new_value) ==
    SetItem(scenario, keys[Len(keys)], new_value)

\* one round of the override loop: a missing key on the way (KeyError) or a
\* number where a dict is needed (TypeError) leaves the scenario as it is
ApplyModification(scenario, keys, new_value) ==
    IF Len(keys) = 1 THEN SetItem(scenario, keys[1], new_value)
    ELSE IF keys[1] \notin DOMAIN scenario THEN scenario
    ELSE IF keys[1] \notin NestedDicts THEN scenario
    ELSE IF Len(keys) = 2
         THEN [scenario EXCEPT ![keys[1]] = SetItem(@, keys[2], new_value)]
    ELSE scenario

\* the override loop over modified_parameters.items(); the overrides of the
\* requests explored touch different fields, so their order does not matter
RECURSIVE ApplyModifications(_, _, _)
ApplyModifications(scenario, modified_parameters, todo) ==
    IF todo = {} THEN scenario
    ELSE LET param_path == CHOOSE x \in todo : TRUE
         IN  ApplyModifications(
                 ApplyModification(scenario, Split(param_path),
                                   modified_parameters[param_path]),
                 modified_parameters, todo \ {param_path})

_determine_risk_level(risk_score) ==
    IF risk_score >= 80000 THEN "critical"
    ELSE IF risk_score >= 60000 THEN "high"
    ELSE IF risk_score >= 30000 THEN "medium"
    ELSE "low"

_categorize_change_magnitude(change) ==
    IF change < 5000 THEN "minimal"
    ELSE IF change < 15000 THEN "moderate"
    ELSE IF change < 30000 THEN "significant"
    ELSE "major"

\* float(value) of _analyze_parameter_impacts raises on a None value of a
\* rainfall, wind speed, temperature or load factor parameter
ImpactRaises(modifications) ==
    \E param \in DOMAIN modifications :
        /\ \E word \in {"rainfall", "wind_speed", "temperature", "load_factor"} :
              Mentions(param, word)
        /\ modifications[param] = None

_analyze_risk_level_change(baseline, modified) ==
    LET baseline_level == _determine_risk_level(baseline.risk_score)
        modified_level == _determine_risk_level(modified.risk_score)
    IN  [baseline_level |-> baseline_level,
         modified_level |-> modified_level,
         level_changed |-> baseline_level # modified_level,
         escalation |-> /\ modified_level # baseline_level
                        /\ modified.risk_score > baseline.risk_score]

\* ScenarioAnalyzer.analyze_impact: the analysis, or the error dict of its
\* except branch
analyze_impact(baseline_result, modified_result, modifications) ==
    LET risk_change == modified_result.risk_score - baseline_result.risk_score
    IN  IF ImpactRaises(modifications)
        THEN [error |-> "raised"]
        ELSE [risk_change |-> risk_change,
              risk_change_percentage |->
                  Rat(risk_change * 100, Max2(baseline_result.risk_score, 1000)),
              direction |-> IF risk_change > 0 THEN "increase"
                            ELSE IF risk_change < 0 THEN "decrease"
                            ELSE "no_change",
              magnitude |-> _categorize_change_magnitude(Abs(risk_change)),
              modified_parameters |-> modifications,
              risk_level_change |->
                  _analyze_risk_level_change(baseline_result, modified_result)]

\* PredictionResponse(...) raises a validation error outside 0 <= risk_score <= 100
ResponseInvalid(result) == result.risk_score < 0 \/ result.risk_score > ScoreCap

PredictionResponse(result, with_explanation) ==
    [risk_score |-> result.risk_score,
     confidence_interval |-> result.confidence_interval,
     risk_level |-> _determine_risk_level(result.risk_score),
     explanation |-> IF with_explanation THEN result.explanation ELSE NoExplanation,
     contributing_factors |-> result.contributing_factors]

Failed500 == [status |-> 500, served |-> "error", predicts |-> 0, tasks |-> {}]

\* the WhatIfResponse built from the two assessments
WhatIfBody(request, baseline_result, modified_result) ==
    [scenario_name |-> request.scenario_name,
     base_prediction |-> PredictionResponse(baseline_result, FALSE),
     modified_prediction |-> PredictionResponse(modified_result, TRUE),
     risk_change |-> modified_result.risk_score - baseline_result.risk_score,
     impact_analysis |->
         analyze_impact(baseline_result, modified_result, request.modified_parameters)]

\* a response computed afresh, with its set_cache task for background_tasks
FreshAnswer(request, body) ==
    [status |-> 200, served |-> "fresh", body |-> body,
     predicts |-> 2, tasks |-> {<<request, body>>}]

\* lines 98-145 of run_what_if_simulation, after the two predict calls
Compare(request, baseline_result, modified_result) ==
    IF ResponseInvalid(baseline_result) \/ ResponseInvalid(modified_result)
    THEN [Failed500 EXCEPT !.predicts = 2]
    ELSE FreshAnswer(request, WhatIfBody(request, baseline_result, modified_result))

\* the payload of predict taken from a scenario dict
ScenarioInput(scenario) ==
    [weather |-> scenario.weather_data, grid |-> scenario.grid_data]

\* run_what_if_simulation.  cached is _simple_cache, keyed here by the request
\* itself where the code keys by hash(str(request.dict())); self is the
\* module's predictor, which nothing trains or loads, so that the outputs of
\* a fitted regressor are never consulted.  The answer carries the number of
\* predict calls made and the set_cache tasks handed to background_tasks.
run_what_if_simulation(cached, self, request) ==
    IF request \in DOMAIN cached
    THEN [status |-> 200, served |-> "cache", body |-> cached[request],
          predicts |-> 0, tasks |-> {}]
    ELSE Compare(
             request,
             predict(self, ScenarioInput(request.base_scenario),
                     FALSE, 0, 0, FALSE).result,
             predict(self,
                     ScenarioInput(ApplyModifications(
                         request.base_scenario, request.modified_parameters,
                         DOMAIN request.modified_parameters)),
                     TRUE, 0, 0, FALSE).result)

\* the WhatIfRequest run_sensitivity_analysis builds for one swept value
SweepRequest(base_request, parameter, value) ==
    [base_scenario |-> base_request.base_scenario,
     modified_parameters |-> (parameter :> value),
     scenario_name |-> <<"Sensitivity", parameter, value>>]

RECURSIVE SumOver(_, _)
SumOver(f, I) ==
    IF I = {} THEN 0
    ELSE LET i == CHOOSE j \in I : TRUE IN f[i] + SumOver(f, I \ {i})

\* the indices of the simulations that did not raise
Succeeded(sims) ==
    LET ok(i) == sims[i].status = 200
    IN  SelectSeq([i \in DOMAIN sims |-> i], ok)

\* results.append({...}) for one simulation
SweepResult(value, result) ==
    [parameter_value |-> value,
     risk_score |-> result.modified_prediction.risk_score,
     risk_change |-> result.risk_change,
     risk_level |-> result.modified_prediction.risk_level]

SweepResults(values, sims, done) ==
    [k \in DOMAIN done |-> SweepResult(values[done[k]], sims[done[k]].body)]

RiskScoresOf(results) == [k \in DOMAIN results |-> results[k].risk_score]

\* lines 320-331 of run_sensitivity_analysis: the metrics and the answer
SweepAnswer(parameter, values, sims, results) ==
    [status |-> 200,
     body |-> [parameter |-> parameter,
               results |-> results,
               sensitivity_metrics |->
                   calculate_sensitivity_metrics(values, RiskScoresOf(results)),
               total_steps |-> Len(results)],
     simulations |-> Len(sims),
     predicts |-> SumOver([i \in DOMAIN sims |-> sims[i].predicts], DOMAIN sims),
     tasks |-> UNION {sims[i].tasks : i \in DOMAIN sims}]

SweepOf(parameter, values, sims) ==
    SweepAnswer(parameter, values, sims, SweepResults(values, sims, Succeeded(sims)))

\* the loop of run_sensitivity_analysis and what follows it: one what-if
\* simulation per value, failures skipped, then the metrics
Sweep(cached, self, base_request, parameter, values) ==
    SweepOf(parameter, values,
            [i \in DOMAIN values |->
                run_what_if_simulation(cached, self,
                                       SweepRequest(base_request, parameter, values[i]))])

\* the answer of a sensitivity call that did no scoring work
Rejected(detail) ==
    [status |-> 500, body |-> [detail |-> detail],
     simulations |-> 0, predicts |-> 0, tasks |-> {}]

\* the two checks of run_sensitivity_analysis made on a finished sweep
ValidatedLate(swept, min_value, max_value, steps) ==
    IF steps > 20
    THEN [swept EXCEPT !.status = 500,
                       !.body = [detail |-> "Maximum 20 steps allowed"]]
    ELSE IF min_value >= max_value
    THEN [swept EXCEPT !.status = 500,
                       !.body = [detail |-> "min_value must be less than max_value"]]
    ELSE swept

\* run_sensitivity_analysis checking the request only once the sweep is done
run_sensitivity_analysis_LateValidation(cached, self, base_request, parameter, min_value, max_value, steps) ==
    IF steps = 1 THEN Rejected("float division by zero")
    ELSE ValidatedLate(
             Sweep(cached, self, base_request, parameter,
                   IF steps < 1 THEN <<>>
                   ELSE ParameterValues(min_value, max_value, steps)),
             min_value, max_value, steps)

\* run_sensitivity_analysis.  The HTTPException(400) of the two checks is
\* raised inside the handler's try and caught by its except Exception, which
\* answers 500; steps = 1 divides by zero.
run_sensitivity_analysis(cached, self, base_request, parameter, min_value, max_value, steps) ==
    IF steps > 20 THEN Rejected("Maximum 20 steps allowed")
    ELSE IF min_value >= max_value
    THEN Rejected("min_value must be less than max_value")
    ELSE IF steps = 1 THEN Rejected("float division by zero")
    ELSE Sweep(cached, self, base_request, parameter,
               IF steps < 1 THEN <<>>
               ELSE ParameterValues(min_value, max_value, steps))

\* the modified_parameters of the what-if requests: none, a valid override, a
\* null value, paths that do not resolve, a top-level key, two overrides
Modifications ==
    { <<>>,
      ("weather_data.rainfall" :> 5000),
      ("weather_data.rainfall" :> None),
      ("weather.rainfall" :> 5000),
      ("rainfall" :> None),
      ("weather_data.rainfall.unit" :> 100),
      ("grid_data.maintenance_status" :> TRUE),
      ("weather_data.rainfall" :> 5000) @@ ("grid_data.maintenance_status" :> TRUE) }

WhatIfRequests ==
    { [base_scenario |-> BaseScenario, modified_parameters |-> m,
       scenario_name |-> <<"Custom Scenario">>] : m \in Modifications }

\* the sensitivity calls: (min_value, max_value) and steps, valid and not
SensitivityRanges == {<<0, 6000>>, <<1000, 500>>, <<500, 500>>}
SensitivitySteps == (0..MaxSteps) \cup {21}

\* the cache keys written or waiting to be written
Entries(cached, tasks) == DOMAIN cached \cup {t[1] : t \in tasks}

\* the effect of a handler's answer: the response, and the background tasks
Answer(route, request, answer) ==
    /\ Cardinality(Entries(cache, pending \cup answer.tasks)) <= MaxEntries
    /\ response' = [route |-> route, request |-> request, answer |-> answer]
    /\ pending' = pending \cup answer.tasks
    /\ UNCHANGED cache

\* POST /what-if
WhatIf(request) ==
    Answer("what-if", request, run_what_if_simulation(cache, Predictor, request))

\* GET /what-if/sensitivity
Sensitivity(base_request, parameter, min_value, max_value, steps) ==
    Answer("sensitivity",
           [parameter |-> parameter, min_value |-> min_value,
            max_value |-> max_value, steps |-> steps],
           run_sensitivity_analysis(cache, Predictor, base_request, parameter,
                                    min_value, max_value, steps))

\* a background task: set_cache(cache_key, response.dict(), ttl=600)
SetCache(task) ==
    /\ task \in pending
    /\ cache' = SetItem(cache, task[1], task[2])
    /\ pending' = pending \ {task}
    /\ UNCHANGED response

WhatIfAny == \E request \in WhatIfRequests : WhatIf(request)

SensitivityAny ==
    \E base_request \in {CHOOSE r \in WhatIfRequests : r.modified_parameters = <<>>},
       r \in SensitivityRanges, steps \in SensitivitySteps :
        /\ steps > 1 /\ steps <= 20 /\ r[1] < r[2] => (r[2] - r[1]) % (steps - 1) = 0
        /\ Sensitivity(base_request, "weather_data.rainfall", r[1], r[2], steps)

SetCacheAny == \E task \in pending : SetCache(task)

NextRoutes ==
    \/ WhatIfAny /\ UNCHANGED <<predVars, metricVars, instanceVars, serverVars>>
    \/ SensitivityAny /\ UNCHANGED <<predVars, metricVars, instanceVars, serverVars>>
    \/ SetCacheAny /\ UNCHANGED <<predVars, metricVars, instanceVars, serverVars>>

SpecRoutes == Init /\ [][NextRoutes]_vars

-----------------------------------------------------------------------------
(* Deriving the modified scenario: the two implementations, on objects *)

\* The caller's scenario and the scenario being modified are objects.  A heap
\* holds the value of the caller's object (base) and of the one a copy
\* creates (copy); ref names the object the override loop writes to.

\* a severe scenario: storm, heavy rain, stressed grid
StormScenario ==
    [weather_data |-> [rainfall |-> 3000, wind_speed |-> 6000,
                       lightning_strikes |-> 0, storm_alert |-> TRUE],
     grid_data |-> StressedGrid, prediction_horizon |-> 24]

\* the scenario is modified in place, no copy being made
Copied_InPlace(heap) == [heap |-> heap, ref |-> "base"]

\* request.base_scenario.dict() and base_scenario.copy(deep=True): a new
\* object holding the values of the caller's
Copied(heap) == [heap |-> [heap EXCEPT !.copy = heap.base], ref |-> "copy"]

\* the override loop of run_what_if_simulation over modified_parameters.items()
\* in their order, writing to the object ref names
RECURSIVE OverrideLoop(_, _, _, _)
OverrideLoop(heap, ref, modified_parameters, order) ==
    IF order = <<>> THEN heap
    ELSE OverrideLoop(
             [heap EXCEPT ![ref] =
                 ApplyModification(@, Split(Head(order)),
                                   modified_parameters[Head(order)])],
             ref, modified_parameters, Tail(order))

\* what the caller holds after lines 65-96 of run_what_if_simulation
WhatIfOutcome(baseline_input, heap, ref) ==
    [base_scenario |-> heap.base,
     baseline_input |-> baseline_input,
     modified_input |-> ScenarioInput(heap[ref])]

WhatIfModified(baseline_input, target, modified_parameters, order) ==
    WhatIfOutcome(baseline_input,
                  OverrideLoop(target.heap, target.ref, modified_parameters, order),
                  target.ref)

\* lines 65-96 of run_what_if_simulation: the baseline input, the copy, the
\* overrides, the modified input
WhatIfScenarios(base_scenario, modified_parameters, order) ==
    WhatIfModified(ScenarioInput(base_scenario),
                   Copied([base |-> base_scenario, copy |-> base_scenario]),
                   modified_parameters, order)

\* _set_nested_value raises: hasattr fails on a segment of the way
\* (ValueError), the last segment is no field of the model (ValueError), or
\* the attribute is set on a number (AttributeError)
SetNestedRaises(obj, keys) ==
    IF Len(keys) = 1 THEN keys[1] \notin DOMAIN obj
    ELSE \/ keys[1] \notin DOMAIN obj
         \/ keys[1] \notin NestedDicts
         \/ Len(keys) > 2
         \/ keys[2] \notin DOMAIN obj[keys[1]]

\* the loop of apply_modifications; the first override that raises ends it
RECURSIVE SetNestedLoop(_, _, _)
SetNestedLoop(obj, modifications, order) ==
    IF order = <<>> THEN [raised |-> FALSE, obj |-> obj]
    ELSE IF SetNestedRaises(obj, Split(Head(order)))
    THEN [raised |-> TRUE, obj |-> obj]
    ELSE SetNestedLoop(
             ApplyModification(obj, Split(Head(order)), modifications[Head(order)]),
             modifications, Tail(order))

\* what the caller holds after apply_modifications: its scenario, and the
\* returned one, which is the caller's own object when the loop raised
ApplyOutcome(heap, looped) ==
    [base_scenario |-> heap.base,
     returned |-> IF looped.raised THEN heap.base ELSE looped.obj,
     same_object |-> looped.raised]

ApplyOnCopy(target, modifications, order) ==
    ApplyOutcome([target.heap EXCEPT ![target.ref] =
                      SetNestedLoop(@, modifications, order).obj],
                 SetNestedLoop(target.heap[target.ref], modifications, order))

\* ScenarioAnalyzer.apply_modifications
apply_modifications(base_scenario, modifications, order) ==
    ApplyOnCopy(Copied([base |-> base_scenario, copy |-> base_scenario]),
                modifications, order)

\* the override value the scenario requests give each path
OverrideValue(param_path) ==
    CASE param_path = "weather_data.rainfall" -> 5000
      [] param_path = "weather.rainfall" -> 5000
      [] param_path = "weather_data.rainfall.unit" -> 100
      [] param_path = "grid_data.maintenance_status" -> TRUE
      [] param_path = "grid_data.load_factor" -> 100

OverridePaths ==
    {"weather_data.rainfall", "weather.rainfall", "weather_data.rainfall.unit",
     "grid_data.maintenance_status", "grid_data.load_factor"}

\* the orders of items() of the override maps: up to MaxOverrides different paths
Orders ==
    {order \in UNION {[1..n -> OverridePaths] : n \in 0..MaxOverrides} :
        \A i, j \in DOMAIN order : order[i] = order[j] => i = j}

ScenarioRequests ==
    { [base_scenario |-> b,
       modified_parameters |-> [p \in {order[i] : i \in DOMAIN order} |-> OverrideValue(p)],
       order |-> order] : b \in {BaseScenario, StormScenario}, order \in Orders }

InitScenario ==
    /\ is_trained = FALSE /\ lstm_model = FALSE /\ xgb_model = FALSE
    /\ explainer = FALSE /\ last = NoCall /\ prev = NoCall
    /\ parameter_values = <<>> /\ risk_scores = <<>> /\ metrics = NoMetrics
    /\ cache = <<>> /\ pending = {}
    /\ InitInstance
    /\ InitServer
    /\ \E request \in ScenarioRequests :
           response = [route |-> "scenario", request |-> request,
                       answer |-> [state |-> "called"]]

\* the caller derives the modified scenario both ways
DeriveScenario ==
    /\ response.route = "scenario"
    /\ response.answer.state = "called"
    /\ response' =
           [response EXCEPT !.answer =
               [state |-> "returned",
                whatif |-> WhatIfScenarios(response.request.base_scenario,
                                           response.request.modified_parameters,
                                           response.request.order),
                apply |-> apply_modifications(response.request.base_scenario,
                                              response.request.modified_parameters,
                                              response.request.order)]]
    /\ UNCHANGED <<predVars, metricVars, cache, pending, instanceVars, serverVars>>

NextScenario == DeriveScenario

SpecScenario == InitScenario /\ [][NextScenario]_vars

-----------------------------------------------------------------------------
(* The batch what-if route *)

BatchLimit == 20

\* req.scenario_name = f"Batch Scenario {i+1}" when the name is empty or the
\* default one
Renamed(req, i) ==
    IF req.scenario_name \in {<<>>, <<"Custom Scenario">>}
    THEN [req EXCEPT !.scenario_name = <<"Batch Scenario", i>>]
    ELSE req

\* the simulations of the loop that returned, in the order of the loop
Kept(sims, done) == [k \in DOMAIN done |-> sims[done[k]].body]

\* max(results, key=lambda x: abs(x.risk_change)): the first of the largest
ArgMaxAbs(seq) == CHOOSE i \in DOMAIN seq :
                     /\ \A j \in DOMAIN seq : Abs(seq[j]) <= Abs(seq[i])
                     /\ \A j \in 1..(i - 1) : Abs(seq[j]) < Abs(seq[i])

_find_most_impactful_scenario(results, risk_changes) ==
    [scenario_name |-> results[ArgMaxAbs(risk_changes)].scenario_name,
     risk_change |-> risk_changes[ArgMaxAbs(risk_changes)],
     impact_type |-> IF risk_changes[ArgMaxAbs(risk_changes)] > 0
                     THEN "increase" ELSE "decrease"]

\* np.std(risk_changes), held as a scale and the square of the deviation of
\* the changes divided by that scale
StdOf(risk_changes, scale) ==
    LET n == Len(risk_changes)
        x == [i \in 1..n |-> risk_changes[i] \div scale]
        xx == [i \in 1..n |-> x[i] * x[i]]
    IN  [scale |-> scale, squared |-> Rat(n * SeqSum(xx) - SeqSum(x) * SeqSum(x), n * n)]

BatchSummary(results, risk_changes) ==
    [error |-> "none",
     total_simulations |-> Len(results),
     average_risk_change |-> Rat(SeqSum(risk_changes), Len(risk_changes)),
     max_risk_change |-> SeqMax(risk_changes),
     min_risk_change |-> SeqMin(risk_changes),
     risk_change_std |->
         StdOf(risk_changes,
               IF SeqGCD(risk_changes) = 0 THEN 1 ELSE SeqGCD(risk_changes)),
     scenarios_increasing_risk |->
         Cardinality({i \in DOMAIN risk_changes : risk_changes[i] > 0}),
     scenarios_decreasing_risk |->
         Cardinality({i \in DOMAIN risk_changes : risk_changes[i] < 0}),
     most_impactful_scenario |-> _find_most_impactful_scenario(results, risk_changes)]

\* ScenarioAnalyzer.analyze_batch_results
analyze_batch_results(results) ==
    IF results = <<>> THEN [error |-> "No results to analyze"]
    ELSE BatchSummary(results, [i \in DOMAIN results |-> results[i].risk_change])

\* lines 187-195 of run_batch_what_if_simulations
BatchAnswer(sims, results) ==
    [status |-> 200,
     body |-> [simulations |-> results,
               batch_summary |-> analyze_batch_results(results),
               total_simulations |-> Len(results),
               successful_simulations |-> Len(results)],
     simulations |-> Len(sims),
     predicts |-> SumOver([i \in DOMAIN sims |-> sims[i].predicts], DOMAIN sims),
     tasks |-> UNION {sims[i].tasks : i \in DOMAIN sims}]

\* the simulations of a batch kept in the reverse order of the requests
BatchOf_Reversed(sims) ==
    BatchAnswer(sims, Kept(sims, [k \in DOMAIN sims |-> Len(sims) + 1 - k]))

\* the loop of run_batch_what_if_simulations, failures skipped, and the summary
BatchOf(sims) == BatchAnswer(sims, Kept(sims, Succeeded(sims)))

\* run_batch_what_if_simulations.  The set_cache tasks of the simulations run
\* after the response, so every simulation of a batch reads the same cache;
\* the HTTPException(400) of the size check is answered as 500.
run_batch_what_if_simulations(cached, self, requests) ==
    IF Len(requests) > BatchLimit
    THEN Rejected("Batch size limited to 20 simulations")
    ELSE BatchOf([i \in DOMAIN requests |->
                     run_what_if_simulation(cached, self, Renamed(requests[i], i))])

\* the requests of the batches: a rainfall override, a null rainfall (whose
\* scoring fails), and a named scenario
BatchItems ==
    { [base_scenario |-> BaseScenario,
       modified_parameters |-> ("weather_data.rainfall" :> 5000),
       scenario_name |-> <<"Custom Scenario">>],
      [base_scenario |-> BaseScenario,
       modified_parameters |-> ("weather_data.rainfall" :> None),
       scenario_name |-> <<"Custom Scenario">>],
      [base_scenario |-> StormScenario,
       modified_parameters |-> ("grid_data.maintenance_status" :> FALSE),
       scenario_name |-> <<"Maintenance over">>] }

\* the batches explored: up to MaxBatch different requests in every order,
\* and one batch over the limit
Batches ==
    {requests \in UNION {[1..n -> BatchItems] : n \in 0..MaxBatch} :
        \A i, j \in DOMAIN requests : requests[i] = requests[j] => i = j}
    \cup {[i \in 1..(BatchLimit + 1) |->
              CHOOSE r \in BatchItems : r.scenario_name # <<"Custom Scenario">>]}

\* POST /what-if/batch
Batch(requests) ==
    Answer("batch", requests, run_batch_what_if_simulations(cache, Predictor, requests))

BatchAny == \E requests \in Batches : Batch(requests)

NextSweeps ==
    \/ BatchAny /\ UNCHANGED <<predVars, metricVars, instanceVars, serverVars>>
    \/ SensitivityAny /\ UNCHANGED <<predVars, metricVars, instanceVars, serverVars>>
    \/ SetCacheAny /\ UNCHANGED <<predVars, metricVars, instanceVars, serverVars>>

SpecSweeps == Init /\ [][NextSweeps]_vars

-----------------------------------------------------------------------------
(* get_model_instance and the scorers of the prediction routes *)

\* EnsemblePredictor(): the object __init__ leaves
EnsemblePredictor(id) ==
    [kind |-> "EnsemblePredictor", id |-> id, is_trained |-> FALSE,
     lstm_model |-> FALSE, xgb_model |-> FALSE, explainer |-> FALSE]

\* SklearnModelAdapter(model_package): its model and scaler come with the
\* package, and it has none of the sub-models of EnsemblePredictor
SklearnModelAdapter(id) ==
    [kind |-> "SklearnModelAdapter", id |-> id, is_trained |-> TRUE,
     lstm_model |-> FALSE, xgb_model |-> FALSE, explainer |-> FALSE]

\* self.load_model(default_model_dir) returning normally on a new predictor
load_model(self, has_lstm, has_xgb) ==
    [self EXCEPT !.lstm_model = has_lstm, !.xgb_model = has_xgb, !.is_trained = TRUE]

\* the globals after the try block reached model_loaded = True
Loaded(model, started) ==
    [ensemble_model |-> model, model_loaded |-> TRUE, loads |-> started]

\* the except block without its model_loaded = True
LoadFailed_Unflagged(id, started) ==
    [ensemble_model |-> EnsemblePredictor(id), model_loaded |-> FALSE, loads |-> started]

\* the except block: a new predictor in mock mode, and the flag set
LoadFailed(id, started) ==
    [ensemble_model |-> EnsemblePredictor(id), model_loaded |-> TRUE, loads |-> started]

\* get_model_instance.  state holds the two globals and the number of loads
\* started; disk says what the model directory holds at the time of the call:
\* sklearn is the state of karnataka_sklearn_model.joblib ("unreadable": the
\* load or the adapter's constructor raises; "no_model_info": the adapter is
\* built and the log line of the accuracy raises), dir whether
\* karnataka_trained exists, and the rest what load_model finds in it.
get_model_instance(state, disk) ==
    IF state.model_loaded THEN state
    ELSE IF disk.sklearn = "ok"
    THEN Loaded(SklearnModelAdapter(state.ensemble_model.id + 1), state.loads + 1)
    ELSE IF disk.sklearn = "unreadable"
    THEN LoadFailed(state.ensemble_model.id + 1, state.loads + 1)
    ELSE IF disk.sklearn = "no_model_info"
    THEN LoadFailed(state.ensemble_model.id + 2, state.loads + 1)
    ELSE IF ~disk.dir
    THEN Loaded(EnsemblePredictor(state.ensemble_model.id + 1), state.loads)
    ELSE IF disk.fail_at = "none"
    THEN Loaded(load_model(EnsemblePredictor(state.ensemble_model.id + 1),
                           disk.has_lstm, disk.has_xgb),
                state.loads + 1)
    ELSE LoadFailed(state.ensemble_model.id + 2, state.loads + 1)

AdapterHalfWidth == 10000

\* SklearnModelAdapter._get_factors; the text of the score in the last factor
\* is left out
_get_factors(weather, grid) ==
    LET rules == <<
            <<Get(weather, "rainfall", 0) > 2500, "Heavy rainfall expected">>,
            <<Get(weather, "storm_alert", FALSE), "Active storm warning">>,
            <<Get(grid, "voltage_stability", 100) < 70, "Grid voltage instability">>,
            <<Get(grid, "load_factor", 0) > 80, "High electrical demand">>,
            <<Get(weather, "lightning_strikes", 0) > 500, "Lightning activity detected">> >>
        hit(r) == r[1]
        fired == SelectSeq(rules, hit)
    IN  IF fired = <<>> THEN <<"Normal conditions (Score)">>
        ELSE [i \in 1..Len(fired) |-> fired[i][2]]

\* an exception that leaves predict
Raised == [exception |-> "Exception"]

\* SklearnModelAdapter.predict.  proba is predict_proba(...)[0][1] * 100, an
\* output of the fitted classifier; scoring_raises is an exception of
\* scaler.transform or predict_proba.  Nothing in the method catches.
SklearnPredict(input_data, proba, scoring_raises) ==
    IF \/ "weather" \notin DOMAIN input_data
       \/ "grid" \notin DOMAIN input_data
    THEN [path |-> "raised", result |-> Raised]
    ELSE IF \/ HasNone(input_data.weather, NumericWeatherKeys)
            \/ HasNone(input_data.grid, NumericGridKeys)
            \/ scoring_raises
    THEN [path |-> "raised", result |-> Raised]
    ELSE [path |-> "sklearn",
          result |->
              [risk_score |-> proba,
               confidence_interval |->
                   [lower |-> Max2(0, proba - AdapterHalfWidth),
                    upper |-> Min2(ScoreCap, proba + AdapterHalfWidth)],
               explanation |-> NoExplanation,
               contributing_factors |->
                   _get_factors(input_data.weather, input_data.grid)]]

\* await model.predict(input_data, include_explanation) on the object the
\* dependency returned
ModelPredict(model, input_data, include_explanation, score, uncertainty, raises) ==
    IF model.kind = "SklearnModelAdapter"
    THEN SklearnPredict(input_data, score, raises)
    ELSE predict(model, input_data, include_explanation, score, uncertainty, raises)

\* what the model directory may hold when get_model_instance looks
Disks ==
    { [sklearn |-> k, dir |-> FALSE, has_lstm |-> FALSE, has_xgb |-> FALSE,
       fail_at |-> "none"] : k \in {"absent", "ok", "unreadable", "no_model_info"} }
    \cup
    { d \in [sklearn : {"absent"}, dir : {TRUE}, has_lstm : BOOLEAN,
             has_xgb : BOOLEAN, fail_at : LoadFailures] :
        /\ d.fail_at \in {"lstm_model", "lstm_scaler"} => d.has_lstm
        /\ d.fail_at \in {"xgb_model", "xgb_scaler"} => d.has_xgb }

\* the payloads the prediction routes build from a validated request
InstancePayloads ==
    { BaseInput,
      [weather |-> [rainfall |-> 3000, wind_speed |-> 6000,
                    lightning_strikes |-> 1000, storm_alert |-> TRUE],
       grid |-> StressedGrid] }

\* predict_proba(...)[0][1] * 100 of the fitted classifier
Probas == {0, 50000, 100000}

Globals == [ensemble_model |-> ensemble_model, model_loaded |-> model_loaded, loads |-> loads]

\* a call of get_model_instance returns: the globals it leaves
Returned(state) ==
    /\ calls < MaxCalls
    /\ ensemble_model' = state.ensemble_model
    /\ model_loaded' = state.model_loaded
    /\ loads' = state.loads
    /\ calls' = calls + 1

\* get_model_instance called outside a request (start_server.py)
GetModelInstance(disk) ==
    /\ Returned(get_model_instance(Globals, disk))
    /\ UNCHANGED <<predVars, metricVars, routeVars, serverVars>>

\* the record of a predict call made on the instance
Scored(model, input_data, include_explanation, out) ==
    [input |-> input_data, include_explanation |-> include_explanation,
     trained |-> model.is_trained, scorer |-> model.kind, id |-> model.id,
     path |-> out.path, result |-> out.result]

\* a prediction route: Depends(get_ensemble_model), then model.predict
InstancePredict(state, input_data, include_explanation, score, uncertainty, raises) ==
    /\ Returned(state)
    /\ state.ensemble_model.kind = "SklearnModelAdapter" => score \in Probas /\ uncertainty = 0
    /\ state.ensemble_model.kind = "EnsemblePredictor" => score \in RawScores
    /\ ~state.ensemble_model.is_trained => score = 50000 /\ uncertainty = 0 /\ ~raises
    /\ last' = Scored(state.ensemble_model, input_data, include_explanation,
                      ModelPredict(state.ensemble_model, input_data,
                                   include_explanation, score, uncertainty, raises))
    /\ UNCHANGED <<is_trained, lstm_model, xgb_model, explainer, prev>>
    /\ UNCHANGED <<metricVars, routeVars, serverVars>>

GetModelInstanceAny == \E disk \in Disks : GetModelInstance(disk)

InstancePredictAny ==
    \E disk \in Disks, input_data \in InstancePayloads,
       include_explanation \in BOOLEAN, score \in RawScores \cup Probas,
       uncertainty \in Uncertainties, raises \in BOOLEAN :
        InstancePredict(get_model_instance(Globals, disk), input_data,
                        include_explanation, score, uncertainty, raises)

NextPredictions ==
    \/ GetModelInstanceAny
    \/ InstancePredictAny

SpecPredictions == Init /\ [][NextPredictions]_vars

-----------------------------------------------------------------------------
(* The what-if and predict handlers, step by step, on requests in flight *)

\* a key that leaves out what the request asks of the scenario
CacheKey_ScenarioOnly(route, request) ==
    <<route, [weather_data |-> IF route = "what-if" THEN request.base_scenario.weather_data
                               ELSE request.weather_data]>>

\* cache_key = f"whatif:{hash(str(request.dict()))}" and
\* f"prediction:{hash(str(request.dict()))}": the request stands for the hash
\* of its text
CacheKey(route, request) == <<route, request>>

\* the dict of the route: simulation._simple_cache or predictions._simple_cache
CacheOf(route, what_if_cache, predictions_cache) ==
    IF route = "what-if" THEN what_if_cache ELSE predictions_cache

\* the response of a request, without prediction_timestamp
Reply(status, body) == [status |-> status, body |-> body]

\* lines 65-145 of run_what_if_simulation, on the predictor of simulation.py
WhatIfFresh(self, request) ==
    LET answer == run_what_if_simulation(<<>>, self, request)
    IN  IF answer.status = 200 THEN Reply(200, answer.body)
        ELSE Reply(500, [detail |-> "Simulation failed"])

\* lines 172-220 of predict_outage, out being what model.predict did.  The
\* models get_model_instance returns have no explainer, so that no
\* explanation has a non-empty shap_values map to enrich.
PredictionFresh(request, out) ==
    IF out.path = "raised" THEN Reply(500, [detail |-> "Prediction failed"])
    ELSE IF ResponseInvalid(out.result) THEN Reply(500, [detail |-> "Prediction failed"])
    ELSE Reply(200, PredictionResponse(out.result, TRUE))

\* what a call of model.predict may draw: the adapter's classifier is a
\* function of the payload, a predictor in mock mode draws nothing, and a
\* loaded predictor reads the clock and perturbs its features at random
Draws(model, classifier, input_data) ==
    IF model.kind = "SklearnModelAdapter" THEN {<<classifier[input_data], 0, FALSE>>}
    ELSE IF ~model.is_trained THEN {<<50000, 0, FALSE>>}
    ELSE (RawScores \X {0} \X {FALSE}) \cup ({50000} \X Uncertainties \X BOOLEAN)

\* the responses a request may get when nothing is cached for it
Fresh(route, request, self, model, classifier) ==
    IF route = "what-if" THEN {WhatIfFresh(self, request)}
    ELSE { PredictionFresh(request,
                           ModelPredict(model, ScenarioInput(request),
                                        request.include_explanation, d[1], d[2], d[3])) :
             d \in Draws(model, classifier, ScenarioInput(request)) }

\* the responses a request may get when it is handled alone: the cached one,
\* or a fresh one
Alone(route, request, cached, self, model, classifier) ==
    IF CacheKey(route, request) \in DOMAIN cached
    THEN {Reply(200, cached[CacheKey(route, request)])}
    ELSE Fresh(route, request, self, model, classifier)

\* the requests in flight
ConcurrentWhatIfs ==
    { [base_scenario |-> BaseScenario, modified_parameters |-> m,
       scenario_name |-> <<"Custom Scenario">>] :
        m \in {<<>>, ("weather_data.rainfall" :> 5000)} }

ConcurrentPredicts ==
    { [weather_data |-> BaseWeather, grid_data |-> BaseGrid, include_explanation |-> TRUE],
      [weather_data |-> BaseWeather, grid_data |-> StressedGrid, include_explanation |-> FALSE] }

Arrivals ==
    { [route |-> "what-if", request |-> r] : r \in ConcurrentWhatIfs }
    \cup { [route |-> "predict", request |-> r] : r \in ConcurrentPredicts }

\* what the model directory holds at startup: the sklearn package, nothing,
\* or the two sub-models of the ensemble
StartupDisks ==
    { d \in Disks : \/ d.sklearn = "ok"
                    \/ d.sklearn = "absent" /\ ~d.dir
                    \/ d.dir /\ d.has_lstm /\ d.has_xgb /\ d.fail_at = "none" }

\* the fitted classifier of the package: a score for each payload
Classifiers(model) ==
    IF model.kind = "SklearnModelAdapter"
    THEN [{ScenarioInput(r) : r \in ConcurrentPredicts} -> {0, 100000}]
    ELSE {[input_data \in {ScenarioInput(r) : r \in ConcurrentPredicts} |-> 50000]}

\* a cache left by earlier requests: under the key of each of them, the body
\* of a response it got
Caches(route, reqs, self, model, classifier) ==
    LET ok(r) == {a \in Fresh(route, r, self, model, classifier) : a.status = 200}
        stored == {r \in reqs : ok(r) # {}}
    IN  UNION { [ {CacheKey(route, r) : r \in K} ->
                    UNION {{a.body : a \in ok(r)} : r \in K} ] :
                K \in {K \in SUBSET stored : Cardinality(K) <= 1} }

NoReply == Reply(0, <<>>)

\* a process that loaded its model at startup and served earlier requests,
\* and the requests that arrive together
InitConcurrent ==
    /\ is_trained = FALSE /\ lstm_model = FALSE /\ xgb_model = FALSE
    /\ explainer = FALSE /\ last = NoCall /\ prev = NoCall
    /\ parameter_values = <<>> /\ risk_scores = <<>> /\ metrics = NoMetrics
    /\ pending = {} /\ response = NoResponse
    /\ now = 0 /\ stored_at = <<>> /\ self_requests = <<>> /\ dispatched = <<>>
    /\ \E disk \in StartupDisks :
         LET state == get_model_instance(
                          [ensemble_model |-> NoInstance, model_loaded |-> FALSE, loads |-> 0],
                          disk)
         IN  /\ ensemble_model = state.ensemble_model
             /\ model_loaded = state.model_loaded
             /\ loads = state.loads
             /\ calls = 1
             /\ \E classifier \in Classifiers(state.ensemble_model) :
                  /\ cache \in Caches("what-if", ConcurrentWhatIfs, Predictor,
                                      state.ensemble_model, classifier)
                  /\ prediction_cache \in Caches("predict", ConcurrentPredicts, Predictor,
                                                 state.ensemble_model, classifier)
                  /\ initial = [cache |-> cache, prediction_cache |-> prediction_cache,
                                classifier |-> classifier]
    /\ inflight \in [1..MaxInflight ->
                        {[route |-> a.route, request |-> a.request, pc |-> "lookup",
                          served |-> "none", reply |-> NoReply] : a \in Arrivals}]

\* cached_result = await get_cache(cache_key); if cached_result: return it
Lookup(i) ==
    LET h == inflight[i]
        key == CacheKey(h.route, h.request)
        cached == CacheOf(h.route, cache, prediction_cache)
    IN  /\ h.pc = "lookup"
        /\ inflight' =
               [inflight EXCEPT ![i] =
                   IF key \in DOMAIN cached
                   THEN [h EXCEPT !.pc = "done", !.served = "cache",
                                   !.reply = Reply(200, cached[key])]
                   ELSE [h EXCEPT !.pc = "score"]]
        /\ UNCHANGED <<cache, prediction_cache, pending>>

\* the scoring, the response and background_tasks.add_task(set_cache, ...)
Score(i) ==
    LET h == inflight[i]
    IN  /\ h.pc = "score"
        /\ \E reply \in Fresh(h.route, h.request, Predictor, ensemble_model,
                              initial.classifier) :
             /\ inflight' = [inflight EXCEPT ![i] = [h EXCEPT !.pc = "done", !.served = "fresh",
                                                              !.reply = reply]]
             /\ pending' = IF reply.status = 200
                           THEN pending \cup {<<h.route, CacheKey(h.route, h.request), reply.body>>}
                           ELSE pending
        /\ UNCHANGED <<cache, prediction_cache>>

\* the background task set_cache(cache_key, response.dict(), ttl) of a route
Store(task) ==
    /\ task \in pending
    /\ pending' = pending \ {task}
    /\ cache' = IF task[1] = "what-if" THEN SetItem(cache, task[2], task[3]) ELSE cache
    /\ prediction_cache' = IF task[1] = "what-if" THEN prediction_cache
                           ELSE SetItem(prediction_cache, task[2], task[3])
    /\ UNCHANGED inflight

LookupAny == \E i \in DOMAIN inflight : Lookup(i)
ScoreAny == \E i \in DOMAIN inflight : Score(i)
StoreAny == \E task \in pending : Store(task)

ConcurrentUnchanged ==
    UNCHANGED <<predVars, metricVars, response, instanceVars, initial, now, stored_at, self_requests, dispatched>>

NextConcurrent ==
    \/ LookupAny /\ ConcurrentUnchanged
    \/ ScoreAny /\ ConcurrentUnchanged
    \/ StoreAny /\ ConcurrentUnchanged

SpecConcurrent == InitConcurrent /\ [][NextConcurrent]_vars

-----------------------------------------------------------------------------
(* The caches of the two routes over time *)

\* the ttl the handlers pass to set_cache, in seconds
WhatIfTtl == 600
PredictionTtl == 300

TtlOf(route) == IF route = "what-if" THEN WhatIfTtl ELSE PredictionTtl

\* a process that loaded its model at startup, the sklearn package or none,
\* its caches empty
InitExpiry ==
    /\ is_trained = FALSE /\ lstm_model = FALSE /\ xgb_model = FALSE
    /\ explainer = FALSE /\ last = NoCall /\ prev = NoCall
    /\ parameter_values = <<>> /\ risk_scores = <<>> /\ metrics = NoMetrics
    /\ cache = <<>> /\ prediction_cache = <<>>
    /\ pending = {} /\ response = NoResponse
    /\ inflight = <<>>
    /\ now = 0 /\ stored_at = <<>> /\ self_requests = <<>> /\ dispatched = <<>>
    /\ \E disk \in {d \in StartupDisks : ~d.dir} :
         LET state == get_model_instance(
                          [ensemble_model |-> NoInstance, model_loaded |-> FALSE, loads |-> 0],
                          disk)
         IN  /\ ensemble_model = state.ensemble_model
             /\ model_loaded = state.model_loaded
             /\ loads = state.loads
             /\ calls = 1
             /\ \E classifier \in Classifiers(state.ensemble_model) :
                  initial = [cache |-> <<>>, prediction_cache |-> <<>>,
                             classifier |-> classifier]

\* a minute passes
Tick ==
    /\ now < 60 * MaxMinutes
    /\ now' = now + 60
    /\ UNCHANGED <<cache, prediction_cache, pending, response, stored_at>>

\* get_cache(key): _simple_cache.get(key); set_cache dropped the ttl it was
\* given, and nothing removes an entry
get_cache(cached, key) ==
    IF key \in DOMAIN cached THEN [hit |-> TRUE, value |-> cached[key]]
    ELSE [hit |-> FALSE, value |-> <<>>]

\* run_what_if_simulation or predict_outage handling a request at the time of
\* the clock: the answer says when it was given and, for a cached one, when
\* its entry was stored
Handle(route, request) ==
    LET key == CacheKey(route, request)
        found == get_cache(CacheOf(route, cache, prediction_cache), key)
    IN  /\ IF found.hit
           THEN /\ response' = [route |-> route, request |-> request,
                                answer |-> [status |-> 200, served |-> "cache",
                                            body |-> found.value, at |-> now,
                                            stored |-> stored_at[key]]]
                /\ UNCHANGED pending
           ELSE \E reply \in Fresh(route, request, Predictor, ensemble_model,
                                   initial.classifier) :
                  /\ response' = [route |-> route, request |-> request,
                                  answer |-> [status |-> reply.status, served |-> "fresh",
                                              body |-> reply.body, at |-> now,
                                              stored |-> now]]
                  /\ pending' = IF reply.status = 200
                                THEN pending \cup {<<route, key, reply.body>>}
                                ELSE pending
        /\ UNCHANGED <<cache, prediction_cache, stored_at, now>>

\* the background task set_cache running at the time of the clock
StoreAt(task) ==
    /\ Store(task)
    /\ stored_at' = SetItem(stored_at, task[2], now)
    /\ UNCHANGED <<response, now>>

\* the requests that come back over time: one what-if and one prediction
Returning ==
    { a \in Arrivals :
        \/ a.route = "what-if" /\ a.request.modified_parameters = <<>>
        \/ a.route = "predict" /\ a.request.include_explanation }

HandleAny == \E a \in Returning : Handle(a.route, a.request)
StoreAtAny == \E task \in pending : StoreAt(task)

ExpiryUnchanged ==
    UNCHANGED <<predVars, metricVars, instanceVars, inflight, initial, self_requests, dispatched>>

NextExpiry ==
    \/ Tick /\ ExpiryUnchanged
    \/ HandleAny /\ ExpiryUnchanged
    \/ StoreAtAny /\ ExpiryUnchanged

SpecExpiry == InitExpiry /\ [][NextExpiry]_vars

-----------------------------------------------------------------------------
(* RateLimitingMiddleware *)

\* timedelta(minutes=1), in seconds
Window == 60

\* self.requests[client_ip] of a defaultdict(list)
RequestsOf(recorded, client_ip) ==
    IF client_ip \in DOMAIN recorded THEN recorded[client_ip] ELSE <<>>

\* [req_time for req_time in self.requests[client_ip] if req_time > cutoff]
Recent(times, cutoff) ==
    LET newer(req_time) == req_time > cutoff
    IN  SelectSeq(times, newer)

\* dispatch appending the time of the request before it checks the limit
dispatch_RecordsRejected(recorded, client_ip, time) ==
    LET kept == Recent(RequestsOf(recorded, client_ip), time - Window)
    IN  [requests |-> SetItem(recorded, client_ip, Append(kept, time)),
         forwarded |-> Len(kept) < calls_per_minute,
         status |-> IF Len(kept) >= calls_per_minute THEN 429 ELSE 0]

\* dispatch, up to call_next: the list of the client is cleaned, then the
\* request is answered 429 or recorded and forwarded.  status 0 stands for
\* the status of the response call_next returns.
dispatch(recorded, client_ip, time) ==
    LET kept == Recent(RequestsOf(recorded, client_ip), time - Window)
    IN  IF Len(kept) >= calls_per_minute
        THEN [requests |-> SetItem(recorded, client_ip, kept),
              forwarded |-> FALSE, status |-> 429]
        ELSE [requests |-> SetItem(recorded, client_ip, Append(kept, time)),
              forwarded |-> TRUE, status |-> 0]

Clients == {"10.0.0.1", "10.0.0.2"}

\* twenty seconds pass
Elapse ==
    /\ now + 20 <= MaxSeconds
    /\ now' = now + 20
    /\ UNCHANGED <<self_requests, dispatched>>

\* a request of a client reaches the middleware at the time of the clock
Dispatch(client_ip) ==
    /\ Len(dispatched) < MaxDispatches
    /\ self_requests' = dispatch(self_requests, client_ip, now).requests
    /\ dispatched' =
           Append(dispatched,
                  [client |-> client_ip, time |-> now,
                   forwarded |-> dispatch(self_requests, client_ip, now).forwarded,
                   status |-> dispatch(self_requests, client_ip, now).status])
    /\ UNCHANGED now

DispatchAny == \E client_ip \in Clients : Dispatch(client_ip)

LimiterUnchanged ==
    UNCHANGED <<predVars, metricVars, routeVars, instanceVars, prediction_cache, inflight, initial, stored_at>>

NextLimiter ==
    \/ Elapse /\ LimiterUnchanged
    \/ DispatchAny /\ LimiterUnchanged

SpecLimiter == Init /\ [][NextLimiter]_vars

-----------------------------------------------------------------------------
(* XGBoostEnsembleModel.prepare_features *)

\* A dict is held here as the sequence of its (key, value) items in insertion
\* order, so that the order of the keys is part of the input.
ItemsGet(items, k, default) ==
    IF \E i \in DOMAIN items : items[i][1] = k
    THEN items[CHOOSE i \in DOMAIN items : items[i][1] = k][2]
    ELSE default

\* the values of the dict in the order of its keys, filled up to five entries
GridArray_ItemOrder(grid_features) ==
    [i \in 1..5 |-> IF i <= Len(grid_features) THEN grid_features[i][2] ELSE 0]

\* grid_array; stabilities and health are in hundredths
GridArray(grid_features) ==
    << ItemsGet(grid_features, "load_factor", 0),
       ItemsGet(grid_features, "voltage_stability", 100),
       ItemsGet(grid_features, "historical_outages", 0),
       ItemsGet(grid_features, "maintenance_status", 0),
       ItemsGet(grid_features, "feeder_health", 100) >>

\* temporal_array
TemporalArray(temporal_features) ==
    << ItemsGet(temporal_features, "hour_of_day", 0),
       ItemsGet(temporal_features, "day_of_week", 0),
       ItemsGet(temporal_features, "month", 1),
       ItemsGet(temporal_features, "season", 0) >>

\* np.concatenate([weather_embeddings, grid_array, temporal_array])
prepare_features(weather_embeddings, grid_features, temporal_features) ==
    weather_embeddings \o GridArray(grid_features) \o TemporalArray(temporal_features)

\* the value each grid field has when it is given
GridFieldValue(k) ==
    CASE k = "load_factor" -> 80
      [] k = "voltage_stability" -> 95
      [] k = "historical_outages" -> 3
      [] k = "maintenance_status" -> 1
      [] k = "feeder_health" -> 90

GridFieldNames ==
    {"load_factor", "voltage_stability", "historical_outages",
     "maintenance_status", "feeder_health"}

\* the grid dicts: every subset of the fields in every order of insertion
GridItems ==
    { [i \in DOMAIN order |-> <<order[i], GridFieldValue(order[i])>>] :
        order \in {o \in UNION {[1..n -> GridFieldNames] : n \in 0..5} :
                      \A i, j \in DOMAIN o : o[i] = o[j] => i = j} }

\* extract_temporal_features of a timestamp, with further keys between those
\* read; the empty dict is what it returns when it fails
TemporalItems ==
    { <<>>,
      << <<"hour_of_day", 14>>, <<"day_of_week", 2>>, <<"day_of_month", 15>>,
         <<"month", 7>>, <<"quarter", 3>>, <<"season", 2>> >>,
      << <<"season", 2>>, <<"month", 7>>, <<"day_of_week", 2>>, <<"hour_of_day", 14>> >> }

\* the embeddings of the sequence encoder, of every size up to MaxEmbedding
Embeddings == { [i \in 1..n |-> 1000 + i] : n \in 0..MaxEmbedding }

InitFeatures ==
    /\ is_trained = FALSE /\ lstm_model = FALSE /\ xgb_model = FALSE
    /\ explainer = FALSE /\ last = NoCall /\ prev = NoCall
    /\ parameter_values = <<>> /\ risk_scores = <<>> /\ metrics = NoMetrics
    /\ cache = <<>> /\ pending = {}
    /\ InitInstance
    /\ InitServer
    /\ \E e \in Embeddings, g \in GridItems, t \in TemporalItems :
           response = [route |-> "prepare_features",
                       request |-> [weather_embeddings |-> e, grid_features |-> g,
                                    temporal_features |-> t],
                       answer |-> [state |-> "called"]]

PrepareFeatures ==
    /\ response.route = "prepare_features"
    /\ response.answer.state = "called"
    /\ response' =
           [response EXCEPT !.answer =
               [state |-> "returned",
                combined_features |->
                    prepare_features(response.request.weather_embeddings,
                                     response.request.grid_features,
                                     response.request.temporal_features)]]
    /\ UNCHANGED <<predVars, metricVars, cache, pending, instanceVars, serverVars>>

NextFeatures == PrepareFeatures

SpecFeatures == InitFeatures /\ [][NextFeatures]_vars

-----------------------------------------------------------------------------
(* predict_outage: the top features of the explanation *)

TopCount == 5

\* sorted(items, key=..., reverse=True): the items by decreasing key, items of
\* equal key in their order in the dict; keys[i] is the key of items[i]
SortedDescending(items, keys) ==
    LET before(j, i) == keys[j] > keys[i] \/ (keys[j] = keys[i] /\ j < i)
        at(k) == CHOOSE i \in DOMAIN items :
                     Cardinality({j \in DOMAIN items : before(j, i)}) = k - 1
    IN  [k \in DOMAIN items |-> items[at(k)]]

\* the items sorted by their signed impact
TopFeatures_Signed(shap_vals) ==
    SubSeq(SortedDescending(shap_vals, [i \in DOMAIN shap_vals |-> shap_vals[i][2]]),
           1, Min2(TopCount, Len(shap_vals)))

\* sorted(shap_vals.items(), key=lambda kv: abs(kv[1]), reverse=True)[:5]
TopFeatures(shap_vals) ==
    SubSeq(SortedDescending(shap_vals, [i \in DOMAIN shap_vals |-> Abs(shap_vals[i][2])]),
           1, Min2(TopCount, Len(shap_vals)))

\* the enrichment of the explanation: an explanation without shap_values, or
\* with an empty map, is left as it is
Enriched(has_shap_values, shap_vals) ==
    IF has_shap_values /\ shap_vals # <<>>
    THEN [exposed |-> TRUE,
          top_features |-> [k \in DOMAIN TopFeatures(shap_vals) |->
                               [feature |-> TopFeatures(shap_vals)[k][1],
                                impact |-> TopFeatures(shap_vals)[k][2]]]]
    ELSE [exposed |-> FALSE, top_features |-> <<>>]

\* the impacts of the attribution maps, in thousandths
Impacts == {-3000, 500, 1500, 3000}

\* explanation['shap_values']: the items (feature name, impact) of
\* dict(zip(feature_names, shap_values.values[0])), in the order of feature_names
AttributionMaps ==
    UNION { { [i \in 1..n |-> <<i, v[i]>>] : v \in [1..n -> Impacts] } :
              n \in 0..MaxFeatures }

InitAttribution ==
    /\ is_trained = FALSE /\ lstm_model = FALSE /\ xgb_model = FALSE
    /\ explainer = FALSE /\ last = NoCall /\ prev = NoCall
    /\ parameter_values = <<>> /\ risk_scores = <<>> /\ metrics = NoMetrics
    /\ cache = <<>> /\ pending = {}
    /\ InitInstance
    /\ InitServer
    /\ \/ \E shap_vals \in AttributionMaps :
              response = [route |-> "top_features",
                          request |-> [has_shap_values |-> TRUE, shap_values |-> shap_vals],
                          answer |-> [state |-> "called"]]
       \/ response = [route |-> "top_features",
                      request |-> [has_shap_values |-> FALSE, shap_values |-> <<>>],
                      answer |-> [state |-> "called"]]

\* lines 185-198 of predict_outage on the result of model.predict
EnrichExplanation ==
    /\ response.route = "top_features"
    /\ response.answer.state = "called"
    /\ response' =
           [response EXCEPT !.answer =
               [state |-> "returned",
                explanation |-> Enriched(response.request.has_shap_values,
                                         response.request.shap_values)]]
    /\ UNCHANGED <<predVars, metricVars, cache, pending, instanceVars, serverVars>>

NextAttribution == EnrichExplanation

SpecAttribution == InitAttribution /\ [][NextAttribution]_vars


-----------------------------------------------------------------------------
(* Properties of EnsemblePredictor.predict *)

Called == last # NoCall

\* C1: whatever the payload and the path taken (fallback, model with or
\* without explanation, failure), the returned risk_score is between 0 and 100.
C1_RiskScoreInRange ==
    Called => (0 <= last.result.risk_score /\ last.result.risk_score <= 100000)

\* C2: every returned assessment has lower <= risk_score <= upper, whichever
\* path produced it.
C2_IntervalBracketsScore ==
    Called =>
        /\ last.result.confidence_interval.lower <= last.result.risk_score
        /\ last.result.risk_score <= last.result.confidence_interval.upper

\* the documented weighted sum, as the specification words it, with a missing
\* field contributing as its benign default
DocumentedSum(input_data) ==
    LET w == IF "weather" \in DOMAIN input_data THEN input_data.weather ELSE <<>>
        g == IF "grid" \in DOMAIN input_data THEN input_data.grid ELSE <<>>
        num(d, k, benign) == IF k \in DOMAIN d THEN d[k] ELSE benign
        flag(d, k) == IF k \in DOMAIN d THEN d[k] ELSE FALSE
    IN    8 * num(w, "rainfall", 0)
        + 3 * num(w, "wind_speed", 0)
        + 20 * num(w, "lightning_strikes", 0)
        + (IF flag(w, "storm_alert") THEN 20000 ELSE 0)
        + 300 * (100 - num(g, "voltage_stability", 100))
        + 250 * num(g, "load_factor", 0)
        + (IF flag(g, "maintenance_status") THEN 15000 ELSE 0)
        + 200 * (100 - num(g, "feeder_health", 100))

DocumentedScore(input_data) ==
    LET s == DocumentedSum(input_data)
    IN  IF s < 0 THEN 0 ELSE IF s > 100000 THEN 100000 ELSE s

\* C3: in fallback mode the score is the documented weighted sum clamped to
\* [0, 100], a missing field counting as its benign default.
C3_FallbackFormula ==
    (Called /\ last.path = "fallback") =>
        last.result.risk_score = DocumentedScore(last.input)

\* C3 witness: a fallback call on a payload that lacks fields and whose sum is
\* neither clamped at 0 nor at 100
C3_Witness ==
    /\ Called /\ last.path = "fallback"
    /\ "weather" \in DOMAIN last.input /\ "grid" \in DOMAIN last.input
    /\ "rainfall" \notin DOMAIN last.input.weather
    /\ "voltage_stability" \notin DOMAIN last.input.grid
    /\ "wind_speed" \in DOMAIN last.input.weather
    /\ last.result.risk_score > 0 /\ last.result.risk_score < 100000

\* C4 as claimed: in fallback mode the base scenario scores 18.5.
C4_BaseScenarioScores18_5 ==
    (Called /\ last.path = "fallback" /\ last.input = BaseInput) =>
        last.result.risk_score = 18500

\* C4 as amended: in fallback mode the base scenario scores 19.0, the value of
\* the documented weighted sum 0.3*10 + 30*0.05 + 25*0.5 + 20*0.1.
C4_BaseScenarioScores19 ==
    (Called /\ last.path = "fallback" /\ last.input = BaseInput) =>
        /\ last.result.risk_score = 19000
        /\ last.result.risk_score = 3000 + 1500 + 12500 + 2000
        /\ last.result.risk_score = DocumentedScore(BaseInput)

\* C4 witness: the base scenario has been scored in fallback mode
C4_Witness == Called /\ last.path = "fallback" /\ last.input = BaseInput

WeatherRaised(a, b) ==
    /\ DOMAIN a = {"weather", "grid"} /\ DOMAIN b = {"weather", "grid"}
    /\ a.grid = b.grid
    /\ DOMAIN a.weather = WeatherKeys /\ DOMAIN b.weather = WeatherKeys
    /\ \E k \in WeatherKeys :
          /\ \A j \in WeatherKeys \ {k} : a.weather[j] = b.weather[j]
          /\ IF k = "storm_alert"
             THEN ~a.weather[k] /\ b.weather[k]
             ELSE a.weather[k] # None /\ a.weather[k] < b.weather[k]

\* C6: in fallback mode, raising one of rainfall, wind_speed,
\* lightning_strikes, or switching storm_alert on, never lowers the score;
\* checked for every pair of consecutive calls and against the remembered call.
C6_FallbackMonotone ==
    /\ [][ (/\ last.path = "fallback" /\ last'.path = "fallback"
            /\ WeatherRaised(last.input, last'.input))
           => last'.result.risk_score >= last.result.risk_score ]_vars
    /\ [][ (/\ last.path = "fallback" /\ last'.path = "fallback"
            /\ WeatherRaised(last'.input, last.input))
           => last'.result.risk_score <= last.result.risk_score ]_vars
    /\ []( (/\ prev # NoCall /\ prev.path = "fallback" /\ last.path = "fallback"
            /\ WeatherRaised(prev.input, last.input))
           => last.result.risk_score >= prev.result.risk_score )

\* C6 witness: a call whose input raises the rainfall of a remembered call,
\* both sums being clamped at 100
C6_Witness ==
    /\ prev # NoCall /\ prev.path = "fallback" /\ last.path = "fallback"
    /\ WeatherRaised(prev.input, last.input)
    /\ prev.result.risk_score = 100000
    /\ last.result.risk_score = 100000

-----------------------------------------------------------------------------
(* Properties of the sensitivity metrics *)

Computed == metrics.error = "none"

\* the pairs of consecutive samples, named by the index of the second
Pairs == 2..Len(parameter_values)

\* the two scores lie strictly on opposite sides of the boundary
StrictStraddle(a, b, t) == (a < t /\ t < b) \/ (a > t /\ t > b)
\* the boundary lies between two different scores, possibly on one of them
WeakStraddle(a, b, t) == (a <= t /\ t <= b /\ a < b) \/ (a >= t /\ t >= b /\ a > b)

CrossingOf(i) ==
    [parameter_value |-> parameter_values[i],
     risk_score |-> risk_scores[i],
     crossing_direction |-> IF risk_scores[i] > risk_scores[i - 1] THEN "up" ELSE "down"]

Qualifying == {i \in Pairs : parameter_values[i - 1] # 0 /\ risk_scores[i - 1] # 0}

\* (relative score change) / (relative value change) of pair i
RelativeRatio(i) ==
    LET ds == Rat(risk_scores[i] - risk_scores[i - 1], risk_scores[i - 1])
        dv == Rat(parameter_values[i] - parameter_values[i - 1], parameter_values[i - 1])
    IN  Rat(ds[1] * dv[2], ds[2] * dv[1])

RECURSIVE RatSumOver(_)
RatSumOver(I) ==
    IF I = {} THEN Rat(0, 1)
    ELSE LET i == CHOOSE j \in I : TRUE
         IN  RatAdd(RelativeRatio(i), RatSumOver(I \ {i}))

\* C10: the linear scorer score = 2 * param over 0..10 in 5 steps has
\* elasticity 1.0 and gradient 2.0 at every step; in general the elasticity is
\* the mean of the relative ratios of the qualifying pairs, and 0 without any.
C10_Elasticity ==
    Computed =>
        /\ IF Qualifying = {}
           THEN metrics.parameter_elasticity = Rat(0, 1)
           ELSE LET e == metrics.parameter_elasticity
                    n == Cardinality(Qualifying)
                IN  Rat(e[1] * n, e[2]) = RatSumOver(Qualifying)
        /\ (parameter_values = <<0, 250, 500, 750, 1000>>
            /\ \A i \in DOMAIN risk_scores : risk_scores[i] = 20 * parameter_values[i])
           => /\ metrics.parameter_elasticity = Rat(1, 1)
              /\ Len(metrics.risk_gradient) = 4
              /\ \A k \in DOMAIN metrics.risk_gradient :
                    metrics.risk_gradient[k] = Rat(2, 1)

\* C10 witness: the metrics of the linear example have been computed, three of
\* its four pairs qualifying
C10_Witness ==
    /\ Computed
    /\ parameter_values = <<0, 250, 500, 750, 1000>>
    /\ risk_scores = <<0, 5000, 10000, 15000, 20000>>
    /\ Cardinality(Qualifying) = 3

-----------------------------------------------------------------------------
(* Properties of the simulation routes *)

\* a what-if simulation has been answered, fresh or from the cache
Answered == response.route = "what-if" /\ response.answer.status = 200

\* the response's risk_change is the difference of its two risk scores
RiskChangeIsDifference ==
    Answered =>
        LET body == response.answer.body
        IN  body.risk_change =
                body.modified_prediction.risk_score - body.base_prediction.risk_score

\* C7: in every what-if response, fresh or cached, risk_change is exactly the
\* modified prediction's risk score minus the base prediction's, and
\* impact_analysis.risk_change carries the same value.
C7_RiskChangeExact ==
    Answered =>
        LET body == response.answer.body
        IN  /\ body.risk_change =
                  body.modified_prediction.risk_score - body.base_prediction.risk_score
            /\ "risk_change" \in DOMAIN body.impact_analysis
            /\ body.impact_analysis.risk_change = body.risk_change

\* the request of the latest sensitivity call fails one of the two checks
InvalidSensitivity(r) ==
    r.route = "sensitivity"
    /\ (r.request.min_value >= r.request.max_value \/ r.request.steps > 20)

\* C8: a sensitivity call with min_value >= max_value or steps > 20 is
\* rejected having made no predict call, run no what-if simulation and
\* scheduled or performed no cache write.
C8_RejectedBeforeScoring ==
    /\ [](InvalidSensitivity(response) =>
            /\ response.answer.status >= 400
            /\ response.answer.predicts = 0
            /\ response.answer.simulations = 0
            /\ response.answer.tasks = {})
    /\ [][(InvalidSensitivity(response') /\ response' # response)
            => UNCHANGED <<cache, pending>>]_vars

\* C8 witness: an invalid range has been rejected while cache writes of
\* earlier simulations were stored and waiting
C8_Witness ==
    /\ InvalidSensitivity(response)
    /\ response.request.min_value >= response.request.max_value
    /\ response.answer.status = 500
    /\ pending # {}
    /\ DOMAIN cache # {}

-----------------------------------------------------------------------------
(* Properties of the predictor's life cycle *)

\* C12: after any sequence of train and load_model calls is_trained is true
\* only if both the sequence encoder and the scorer model are present, so that
\* predict, when a fitted model is missing, answers with the fallback heuristic
\* and never with the zero-score failure assessment.
C12_TrainedOnlyWithModels ==
    is_trained => (lstm_model /\ xgb_model)

-----------------------------------------------------------------------------
(* Properties of the contributing factors and of the interval *)

\* the call returned an assessment that is not the failure default
Assessed == Called /\ last.path # "failure"

\* the documented rules, in the documented priority order
DocumentedRules(input_data) ==
    LET weather == Get(input_data, "weather", <<>>)
        grid == Get(input_data, "grid", <<>>)
    IN  << <<Get(weather, "rainfall", 0) > 2500, "Heavy rainfall expected">>,
           <<Get(weather, "storm_alert", FALSE), "Active storm warning">>,
           <<Get(grid, "voltage_stability", 100) < 70, "Grid voltage instability">>,
           <<Get(grid, "load_factor", 0) > 80, "High electrical demand">>,
           <<Get(weather, "lightning_strikes", 0) > 500, "Lightning activity detected">>,
           <<Get(grid, "feeder_health", 100) < 60, "Poor feeder condition">>,
           <<Get(grid, "maintenance_status", FALSE), "Equipment under maintenance">> >>

DocumentedFactors(input_data) ==
    LET hit(r) == r[1]
        fired == SelectSeq(DocumentedRules(input_data), hit)
        factors == [i \in 1..Len(fired) |-> fired[i][2]]
    IN  SubSeq(factors, 1, Min2(5, Len(factors)))

\* C16: contributing_factors holds the phrases of exactly the documented rules
\* whose condition is true, in the documented priority order, cut to the first
\* five, without duplicates.
C16_FactorsInDocumentedOrder ==
    Assessed =>
        \/ last.result.contributing_factors = DocumentedFactors(last.input)
        \/ /\ DocumentedFactors(last.input) = <<>>
           /\ Len(last.result.contributing_factors) = 1

\* no rule of the code and no documented rule fires for the input
NoRuleFires(input_data) ==
    /\ _identify_contributing_factors(input_data) = <<>>
    /\ DocumentedFactors(input_data) = <<>>

\* C17: when no contributing-factor rule fires, contributing_factors holds
\* exactly one factor (the score is within normal range); the list of a
\* successful prediction is never empty.
C17_NormalRangeFactor ==
    Assessed =>
        /\ last.result.contributing_factors # <<>>
        /\ NoRuleFires(last.input) => Len(last.result.contributing_factors) = 1

\* C18: in fallback mode, where no model responds to the perturbations and
\* the spread of the perturbed scores is zero, the confidence interval has
\* zero width: lower = upper = risk_score.
C18_ZeroWidthInterval ==
    (Called /\ last.path = "fallback") =>
        /\ last.result.confidence_interval.lower = last.result.risk_score
        /\ last.result.confidence_interval.upper = last.result.risk_score

-----------------------------------------------------------------------------
(* Properties of the derivation of the modified scenario *)

Derived == response.route = "scenario" /\ response.answer.state = "returned"

\* paths of the scenario requests with a segment that does not exist
BadPaths == {"weather.rainfall", "weather_data.rainfall.unit"}

\* the base scenario with every override of an existing field applied
ExpectedScenario(base_scenario, m) ==
    [base_scenario EXCEPT
        !.weather_data.rainfall =
            IF "weather_data.rainfall" \in DOMAIN m
            THEN m["weather_data.rainfall"] ELSE @,
        !.grid_data.maintenance_status =
            IF "grid_data.maintenance_status" \in DOMAIN m
            THEN m["grid_data.maintenance_status"] ELSE @,
        !.grid_data.load_factor =
            IF "grid_data.load_factor" \in DOMAIN m
            THEN m["grid_data.load_factor"] ELSE @]

\* C11: when the override map holds a path with a non-existent segment, only
\* that override is skipped: the modified scenario is the base scenario with
\* every other override applied, wherever the bad path stands in the map, in
\* the what-if route and in ScenarioAnalyzer.apply_modifications alike.
C11_OnlyBadOverrideSkipped ==
    (Derived /\ DOMAIN response.request.modified_parameters \cap BadPaths # {}) =>
        /\ response.answer.whatif.modified_input =
               ScenarioInput(ExpectedScenario(response.request.base_scenario,
                                              response.request.modified_parameters))
        /\ response.answer.apply.returned =
               ExpectedScenario(response.request.base_scenario,
                                response.request.modified_parameters)

\* the what-if route alone skips only the bad override
WhatIfSkipsOnlyBadOverride ==
    Derived =>
        response.answer.whatif.modified_input =
            ScenarioInput(ExpectedScenario(response.request.base_scenario,
                                           response.request.modified_parameters))

\* C14: applying overrides never mutates the base scenario: after
\* apply_modifications and after the what-if derivation the caller's scenario
\* has the value it had before, and the baseline input is made of it.
C14_BaseScenarioUnchanged ==
    Derived =>
        /\ response.answer.apply.base_scenario = response.request.base_scenario
        /\ response.answer.whatif.base_scenario = response.request.base_scenario
        /\ response.answer.whatif.baseline_input =
               ScenarioInput(response.request.base_scenario)

\* C14 witness: both derivations changed a field, and the base kept its value
C14_Witness ==
    /\ Derived
    /\ response.answer.apply.returned # response.request.base_scenario
    /\ response.answer.whatif.modified_input #
           ScenarioInput(response.request.base_scenario)
    /\ response.answer.apply.base_scenario = response.request.base_scenario
    /\ response.answer.whatif.base_scenario = response.request.base_scenario

-----------------------------------------------------------------------------
(* Properties of the overrides of the what-if route *)

\* the risk score the module's predictor gives a scenario
ScoreOf(scenario) ==
    predict(Predictor, ScenarioInput(scenario), TRUE, 0, 0, FALSE).result.risk_score

\* the paths weather_data.<field> and grid_data.<field> of existing fields
DataPaths ==
    {"weather_data.rainfall", "grid_data.maintenance_status", "grid_data.load_factor"}

-----------------------------------------------------------------------------
(* Properties of the model instance of the prediction routes *)

\* a predict call was made on the instance, and its scoring did not complete
ScoringFailed == last # NoCall /\ last.path \in {"failure", "raised"}

\* C13: an exception raised inside scoring never propagates to the caller of
\* predict, whichever scorer the routes obtained: the call returns an
\* assessment with risk_score 0, confidence interval [0, 0] and exactly one
\* contributing factor.
C13_FailureContained ==
    ScoringFailed =>
        /\ last.path # "raised"
        /\ last.result.risk_score = 0
        /\ last.result.confidence_interval = [lower |-> 0, upper |-> 0]
        /\ Len(last.result.contributing_factors) = 1

\* the same, of the EnsemblePredictor alone
EnsembleFailureContained ==
    (ScoringFailed /\ last.scorer = "EnsemblePredictor") =>
        /\ last.path # "raised"
        /\ last.result.risk_score = 0
        /\ last.result.confidence_interval = [lower |-> 0, upper |-> 0]
        /\ Len(last.result.contributing_factors) = 1

\* C20: the model is loaded at most once in a process and is read-only
\* afterwards: once a call of get_model_instance has returned, every later
\* call and every predict call leaves the model reference, its is_trained flag
\* and its fitted sub-models as they are, and starts no load.
C20_LoadedOnceReadOnly ==
    /\ [](loads <= 1)
    /\ [](calls > 0 => model_loaded /\ ensemble_model.kind # "None")
    /\ [][calls > 0 => ensemble_model' = ensemble_model /\ loads' = loads]_vars

\* C20 witness: a loaded predictor with both sub-models has scored a request
\* on a later call, and get_model_instance has returned three times
C20_Witness ==
    /\ calls = MaxCalls
    /\ loads = 1
    /\ ensemble_model.is_trained /\ ensemble_model.lstm_model /\ ensemble_model.xgb_model
    /\ last # NoCall
    /\ last.id = ensemble_model.id
    /\ last.path = "model_plain"

-----------------------------------------------------------------------------
(* Properties of the order of the results *)

\* the swept values of the latest sensitivity call
SweptValues ==
    ParameterValues(response.request.min_value, response.request.max_value,
                    response.request.steps)

\* the score of the base scenario with its rainfall set to a value
RainfallScore(value) ==
    ScoreOf([BaseScenario EXCEPT !.weather_data.rainfall = value])

\* the score of a what-if request: that of its scenario with its overrides
RequestScore(request) ==
    ScoreOf(ExpectedScenario(request.base_scenario, request.modified_parameters))

\* C19: outputs stay with their inputs.  In a sensitivity sweep the i-th
\* result carries parameter_values[i] and the score obtained for it, and every
\* metric is computed from the scores in that order; in a batch the i-th
\* simulation returned is that of the i-th request, by its name and its two
\* scores, also when the scoring of a scenario failed.
C19_OutputsFollowInputs ==
    /\ (response.route = "sensitivity" /\ response.answer.status = 200) =>
           /\ Len(response.answer.body.results) = Len(SweptValues)
           /\ \A i \in DOMAIN SweptValues :
                  /\ response.answer.body.results[i].parameter_value = SweptValues[i]
                  /\ response.answer.body.results[i].risk_score =
                         RainfallScore(SweptValues[i])
           /\ response.answer.body.sensitivity_metrics =
                  calculate_sensitivity_metrics(
                      SweptValues,
                      [i \in DOMAIN SweptValues |-> RainfallScore(SweptValues[i])])
    /\ (response.route = "batch" /\ response.answer.status = 200) =>
           /\ Len(response.answer.body.simulations) = Len(response.request)
           /\ \A i \in DOMAIN response.request :
                  /\ response.answer.body.simulations[i].scenario_name =
                         Renamed(response.request[i], i).scenario_name
                  /\ response.answer.body.simulations[i].base_prediction.risk_score =
                         ScoreOf(response.request[i].base_scenario)
                  /\ response.answer.body.simulations[i].modified_prediction.risk_score =
                         RequestScore(response.request[i])

\* C19 witness: a batch of two whose first scenario failed to score (a null
\* rainfall, score 0) and whose second scored higher than its base
C19_Witness ==
    /\ response.route = "batch"
    /\ response.answer.status = 200
    /\ Len(response.request) = 2
    /\ response.request[1].modified_parameters = ("weather_data.rainfall" :> None)
    /\ response.answer.body.simulations[1].modified_prediction.contributing_factors =
           <<"Prediction failed">>
    /\ response.answer.body.simulations[2].modified_prediction.risk_score >
           response.answer.body.simulations[2].base_prediction.risk_score

-----------------------------------------------------------------------------
(* Properties of the sampling of a sensitivity sweep *)

\* the latest call is a sensitivity call that passes the two checks
ValidSensitivity ==
    /\ response.route = "sensitivity"
    /\ response.request.min_value < response.request.max_value
    /\ response.request.steps <= 20

\* C21: a sensitivity call with min_value < max_value and steps <= 20
\* generates exactly steps parameter values, evenly spaced, the first equal to
\* min_value and the last to max_value, and scores each of them.
C21_StepsValuesScored ==
    ValidSensitivity =>
        /\ response.answer.status = 200
        /\ Len(response.answer.body.results) = response.request.steps
        /\ response.answer.simulations = response.request.steps
        /\ response.request.steps >= 1 =>
               /\ response.answer.body.results[1].parameter_value =
                      response.request.min_value
               /\ response.answer.body.results[response.request.steps].parameter_value =
                      response.request.max_value
        /\ \A i \in 2..(response.request.steps - 1) :
               response.answer.body.results[i + 1].parameter_value
                   - response.answer.body.results[i].parameter_value
               = response.answer.body.results[i].parameter_value
                   - response.answer.body.results[i - 1].parameter_value

\* the same of the calls with two samples or more
SweepOfTwoOrMoreSampled ==
    (ValidSensitivity /\ response.request.steps >= 2) =>
        /\ response.answer.status = 200
        /\ Len(response.answer.body.results) = response.request.steps
        /\ response.answer.simulations = response.request.steps
        /\ response.answer.body.results[1].parameter_value = response.request.min_value
        /\ response.answer.body.results[response.request.steps].parameter_value =
               response.request.max_value

-----------------------------------------------------------------------------
(* Properties of the composed feature vector *)

Composed == response.route = "prepare_features" /\ response.answer.state = "returned"

\* the value given for a field among the items of a dict, whatever their order
Given(items, k) == {items[i][2] : i \in {j \in DOMAIN items : items[j][1] = k}}

\* the entry of a field: its given value, or the default when it is missing
EntryIs(x, items, k, default) ==
    IF Given(items, k) = {} THEN x = default ELSE x \in Given(items, k)

\* C22: the composed vector is the weather embedding, then load_factor,
\* voltage_stability, historical_outages, maintenance_status, feeder_health,
\* then hour_of_day, day_of_week, month, season, whatever the key order of the
\* input maps; a missing grid field takes its benign default (voltage_stability
\* and feeder_health 1, the others 0), so the length does not depend on the
\* fields given.
C22_FeatureOrderFixed ==
    Composed =>
        LET v == response.answer.combined_features
            e == response.request.weather_embeddings
            g == response.request.grid_features
            t == response.request.temporal_features
            n == Len(e)
        IN  /\ Len(v) = n + 9
            /\ SubSeq(v, 1, n) = e
            /\ EntryIs(v[n + 1], g, "load_factor", 0)
            /\ EntryIs(v[n + 2], g, "voltage_stability", 100)
            /\ EntryIs(v[n + 3], g, "historical_outages", 0)
            /\ EntryIs(v[n + 4], g, "maintenance_status", 0)
            /\ EntryIs(v[n + 5], g, "feeder_health", 100)
            /\ Given(t, "hour_of_day") # {} => v[n + 6] \in Given(t, "hour_of_day")
            /\ Given(t, "day_of_week") # {} => v[n + 7] \in Given(t, "day_of_week")
            /\ Given(t, "month") # {} => v[n + 8] \in Given(t, "month")
            /\ Given(t, "season") # {} => v[n + 9] \in Given(t, "season")

\* C22 witness: a grid dict given feeder_health first and without its
\* voltage_stability, composed after an embedding of two entries
C22_Witness ==
    /\ Composed
    /\ Len(response.request.weather_embeddings) = 2
    /\ Len(response.request.grid_features) = 4
    /\ response.request.grid_features[1][1] = "feeder_health"
    /\ Given(response.request.grid_features, "voltage_stability") = {}
    /\ response.answer.combined_features[4] = 100
    /\ response.answer.combined_features[7] = 90

-----------------------------------------------------------------------------
(* Properties of the optimal range *)

\* the sampled values whose score is at most 1.1 times the minimum score
NearMinimum ==
    {parameter_values[i] : i \in {j \in DOMAIN risk_scores :
                                     10 * risk_scores[j] <= 11 * SeqMin(risk_scores)}}

\* C23: for a non-empty sample set the optimal range is [min, max] over
\* exactly the sampled values whose score is at most 1.1 times the minimum
\* score; optimal_value lies inside the range and is a value at which the
\* minimum score is attained; risk_reduction_potential is max(score) - min(score).
C23_OptimalRange ==
    Computed =>
        LET o == metrics.optimal_range
        IN  /\ o.optimal_range.min \in NearMinimum
            /\ o.optimal_range.max \in NearMinimum
            /\ \A x \in NearMinimum : o.optimal_range.min <= x /\ x <= o.optimal_range.max
            /\ o.optimal_range.min <= o.optimal_value
            /\ o.optimal_value <= o.optimal_range.max
            /\ \E i \in DOMAIN risk_scores :
                   /\ parameter_values[i] = o.optimal_value
                   /\ risk_scores[i] = SeqMin(risk_scores)
            /\ o.risk_reduction_potential = SeqMax(risk_scores) - SeqMin(risk_scores)

\* C23 witness: a sweep whose minimum score is positive, with a second sample
\* within 10% of it and a sample beyond the range
C23_Witness ==
    /\ Computed
    /\ SeqMin(risk_scores) > 0
    /\ metrics.optimal_range.optimal_range.min < metrics.optimal_range.optimal_range.max
    /\ \E i \in DOMAIN parameter_values :
           parameter_values[i] > metrics.optimal_range.optimal_range.max

-----------------------------------------------------------------------------
(* Properties of the top features *)

\* the explanation of a result with a non-empty attribution map was enriched
Attributed ==
    /\ response.route = "top_features"
    /\ response.answer.state = "returned"
    /\ response.request.has_shap_values
    /\ response.request.shap_values # <<>>

\* C24: when an attribution map is present the top_features list has
\* min(5, number of features) entries, each the {feature, impact} pair of one
\* feature of the map, ordered by non-increasing absolute impact, and no
\* feature left out has a larger absolute impact than one included.
C24_TopFeatures ==
    Attributed =>
        LET m == response.request.shap_values
            top == response.answer.explanation.top_features
            included == {top[k].feature : k \in DOMAIN top}
        IN  /\ response.answer.explanation.exposed
            /\ Len(top) = Min2(5, Len(m))
            /\ \A k \in DOMAIN top :
                   \E i \in DOMAIN m : m[i] = <<top[k].feature, top[k].impact>>
            /\ \A k, l \in DOMAIN top : top[k].feature = top[l].feature => k = l
            /\ \A k \in 1..(Len(top) - 1) : Abs(top[k].impact) >= Abs(top[k + 1].impact)
            /\ \A i \in DOMAIN m :
                   m[i][1] \notin included =>
                       \A k \in DOMAIN top : Abs(m[i][2]) <= Abs(top[k].impact)

\* C24 witness: a map of six features, one left out, with a negative impact
\* ranked first and a positive one of the same size also included
C24_Witness ==
    /\ Attributed
    /\ Len(response.request.shap_values) = 6
    /\ Len(response.answer.explanation.top_features) = 5
    /\ response.answer.explanation.top_features[1].impact = -3000
    /\ response.answer.explanation.top_features[2].impact = 3000
    /\ response.answer.explanation.top_features[5].impact = 1500

-----------------------------------------------------------------------------
(* Properties of requests handled at the same time *)

\* C25: scoring calls are independent under interleaving: whatever the order
\* of the lookups, scorings and deferred cache writes of the requests in
\* flight, each request gets a response it could get when handled alone from
\* the caches and the model the requests started from.
C25_SameAsAlone ==
    \A i \in DOMAIN inflight :
        inflight[i].pc = "done" =>
            inflight[i].reply \in
                Alone(inflight[i].route, inflight[i].request,
                      CacheOf(inflight[i].route, initial.cache, initial.prediction_cache),
                      Predictor, ensemble_model, initial.classifier)

\* C25 witness: two requests for the same what-if are done, one scored and
\* the other served what the first one stored meanwhile
C25_Witness ==
    /\ \A i \in DOMAIN inflight : inflight[i].pc = "done" /\ inflight[i].route = "what-if"
    /\ inflight[1].request = inflight[2].request
    /\ inflight[1].served = "fresh"
    /\ inflight[2].served = "cache"
    /\ initial.cache = <<>>

-----------------------------------------------------------------------------
(* Properties of the entry points *)

\* a what-if request and a predict request for the same weather and grid data
\* have both been answered
SameScenarioAnswered(i, j) ==
    /\ inflight[i].route = "what-if" /\ inflight[j].route = "predict"
    /\ inflight[i].pc = "done" /\ inflight[j].pc = "done"
    /\ inflight[i].reply.status = 200 /\ inflight[j].reply.status = 200
    /\ inflight[i].request.base_scenario.weather_data = inflight[j].request.weather_data
    /\ inflight[i].request.base_scenario.grid_data = inflight[j].request.grid_data

\* C26: in any process state the base_prediction.risk_score of a what-if call
\* equals the risk_score the predict endpoint returns for the same weather and
\* grid data.
C26_EntryPointsAgree ==
    \A i, j \in DOMAIN inflight :
        SameScenarioAnswered(i, j) =>
            inflight[i].reply.body.base_prediction.risk_score =
                inflight[j].reply.body.risk_score

\* the two entry points agree in a process whose prediction routes are in mock
\* mode as well
EntryPointsAgreeInMockMode ==
    \A i, j \in DOMAIN inflight :
        (SameScenarioAnswered(i, j) /\ ~ensemble_model.is_trained) =>
            inflight[i].reply.body.base_prediction.risk_score =
                inflight[j].reply.body.risk_score

-----------------------------------------------------------------------------
(* Properties of the status of a rejected request *)

\* the batch route answered a batch above its limit
OverLimitBatch == response.route = "batch" /\ Len(response.request) > 20

\* C27: a request that fails validation inside a route is answered with the
\* status the validation raises: a sensitivity call with steps > 20 or
\* min_value >= max_value and a what-if batch of more than 20 requests end
\* with status 400.
C27_ValidationStatus ==
    (InvalidSensitivity(response) \/ OverLimitBatch) => response.answer.status = 400

\* the requests that fail validation are answered with status 500, with the
\* detail of the validation
ValidationAnswered500 ==
    /\ InvalidSensitivity(response) =>
           /\ response.answer.status = 500
           /\ response.answer.body.detail \in
                  {"Maximum 20 steps allowed", "min_value must be less than max_value"}
    /\ OverLimitBatch =>
           /\ response.answer.status = 500
           /\ response.answer.body.detail = "Batch size limited to 20 simulations"

-----------------------------------------------------------------------------
(* Properties of the age of a cached response *)

\* the latest request was served from the cache of its route
ServedFromCache ==
    /\ response.route \in {"what-if", "predict"}
    /\ response.answer.served = "cache"

\* C28: a what-if response is served from the cache only within 10 minutes
\* of being stored and a prediction response only within 5 minutes; a request
\* arriving later is scored again.
C28_CachedWithinTtl ==
    ServedFromCache =>
        response.answer.at - response.answer.stored <= TtlOf(response.route)

\* an entry, once stored, serves every later request for its key
StoredServesForever ==
    [][\A a \in Returning :
           (Handle(a.route, a.request) /\ CacheKey(a.route, a.request) \in DOMAIN stored_at)
               => response'.answer.served = "cache"]_vars

-----------------------------------------------------------------------------
(* Properties of the crossings and the risk levels *)

\* a crossing of the boundary is recorded for the pair ending at sample i
Recorded(name, i) ==
    \E k \in DOMAIN metrics.threshold_analysis[name] :
        metrics.threshold_analysis[name][k].parameter_value = parameter_values[i]

\* the two scores of the pair lie on different sides of the level boundary:
\* exactly one of them is >= t
LevelsDiffer(a, b, t) == (a >= t) # (b >= t)

\* C29: for each boundary T in {30, 60, 80} and every pair of consecutive
\* samples, a crossing of T is recorded if and only if exactly one of the two
\* scores is >= T, scores equal to T included, in both directions.
C29_CrossingsAgreeWithLevels ==
    Computed =>
        \A t \in DOMAIN Thresholds : \A i \in Pairs :
            Recorded(Thresholds[t].name, i)
                <=> LevelsDiffer(risk_scores[i - 1], risk_scores[i], Thresholds[t].value)

\* the crossings agree with the levels on every pair whose score does not fall
\* from or onto the boundary itself
CrossingsAgreeOffBoundary ==
    Computed =>
        \A t \in DOMAIN Thresholds : \A i \in Pairs :
            ~(risk_scores[i] < risk_scores[i - 1]
              /\ Thresholds[t].value \in {risk_scores[i - 1], risk_scores[i]})
            => (Recorded(Thresholds[t].name, i)
                    <=> LevelsDiffer(risk_scores[i - 1], risk_scores[i], Thresholds[t].value))

-----------------------------------------------------------------------------
(* Properties of the rate limiter *)

\* the requests of the client forwarded among the first n dispatched, at a
\* time later than since and no later than until
ForwardedIn(client_ip, n, since, until) ==
    { j \in 1..n : /\ dispatched[j].client = client_ip
                   /\ dispatched[j].forwarded
                   /\ dispatched[j].time > since
                   /\ dispatched[j].time <= until }

\* the times of the forwarded requests of the client that the list still
\* holds after the client's latest request
StillRecorded(client_ip) ==
    LET mine == {j \in DOMAIN dispatched : dispatched[j].client = client_ip}
        latest == dispatched[CHOOSE j \in mine : \A l \in mine : l <= j].time
        kept(d) == d.client = client_ip /\ d.forwarded /\ d.time > latest - 60
        entries == SelectSeq(dispatched, kept)
    IN  [k \in DOMAIN entries |-> entries[k].time]

\* C30: a request is forwarded if and only if fewer than calls_per_minute
\* requests of the same client were forwarded in the minute before it, and is
\* answered 429 and not recorded otherwise; so no client has more than
\* calls_per_minute requests forwarded in any 60-second window, and the
\* requests of one client never change the outcome or the list of another.
C30_RateLimited ==
    /\ [](\A k \in DOMAIN dispatched :
            LET d == dispatched[k]
                before == ForwardedIn(d.client, k - 1, d.time - 60, d.time)
            IN  /\ d.forwarded <=> Cardinality(before) < calls_per_minute
                /\ d.status = 429 <=> ~d.forwarded
                /\ Cardinality(ForwardedIn(d.client, k, d.time - 60, d.time))
                       <= calls_per_minute)
    /\ [](\A c \in DOMAIN self_requests : self_requests[c] = StillRecorded(c))
    /\ [][\A c \in Clients :
            (Len(dispatched') > Len(dispatched)
             /\ dispatched'[Len(dispatched')].client # c)
                => RequestsOf(self_requests', c) = RequestsOf(self_requests, c)]_vars

\* C30 witness: a client at its limit was answered 429 while the other client
\* was forwarded at the same time, and was forwarded again once its earlier
\* requests were a minute old
C30_Witness ==
    \E i, j, k \in DOMAIN dispatched :
        /\ i < j /\ j < k
        /\ dispatched[i].client = "10.0.0.1" /\ dispatched[i].status = 429
        /\ dispatched[j].client = "10.0.0.2" /\ dispatched[j].forwarded
        /\ dispatched[j].time = dispatched[i].time
        /\ dispatched[k].client = "10.0.0.1" /\ dispatched[k].forwarded
        /\ dispatched[k].time = 60
        /\ ForwardedIn("10.0.0.1", k - 1, -1, 0) # {}

=============================================================================
